---- MODULE Spec2Model ----
(***************************************************************************)
(* Model of the three BigCommerce export scripts: catalog.py (products),   *)
(* customers.py (customers with address / attribute enrichment) and        *)
(* orders.py (orders with one product fetch per order).                    *)
(*                                                                         *)
(* SpecFetch runs one logical fetch (request_with_backoff or               *)
(* get_with_429_retry) one HTTP request per step.  Spec runs the three     *)
(* exports one logical fetch per step: a step is the whole call of the     *)
(* fetcher on the outcomes the upstream gives to its successive requests,  *)
(* together with the code the script runs on the result up to its next     *)
(* fetch.  Durations are in milliseconds; entity lists are modelled by     *)
(* their lengths.  SpecFetchLive is SpecFetch with weak fairness of the    *)
(* running call.  SpecFanOut runs build_rows_one_per_order of orders.py    *)
(* on its thread pool, one HTTP request of one worker per step.  SpecCsv   *)
(* flattens the entities of one export and writes their rows, entity by    *)
(* entity and line by line, on records with their keys and values.         *)
(* SpecBulk runs one bulk fetch of customers.py by customer_id:in chunks,  *)
(* one chunk per step, on id lists and sub-records.                        *)
(***************************************************************************)
EXTENDS Integers, Sequences, FiniteSets, Bags, TLC

\* ---------------------------------------------------------------------
\* Bounds of the model
\* ---------------------------------------------------------------------
\* Largest number of pages any one listing of the upstream holds.
MaxPages == 2

\* Length of a short (non-empty, not full) page.
ShortPage == 10

\* Largest number of customers of one page flagged for enrichment.
MaxFlagged == 60

\* Largest number of pages the sub-records of one id chunk fill.
MaxSubPages == 1

\* Longest list of orders of distinct content handed to the fan-out.
MaxOrders == 2

\* Orders beyond MAX_WORKERS in the list that saturates the pool.
ExtraOrders == 1

\* Most answers other than a good 200 the upstream gives during one fan-out.
MaxFaults == 2

\* Most entities of one export whose rows are flattened and written.
MaxRows == 2

\* ---------------------------------------------------------------------
\* Program constants
\* ---------------------------------------------------------------------
LIMIT == 250
MAX_WORKERS == 10
MAX_RETRIES == 8
BASE_BACKOFF == 1
MAX_429_RETRIES == 20
DEFAULT_RETRY_AFTER == 5
ID_IN_CHUNK == 50

Min(a, b) == IF a <= b THEN a ELSE b

Seconds(s) == s * 1000

\* ---------------------------------------------------------------------
\* The upstream: what one HTTP request can come back with
\* ---------------------------------------------------------------------
\* A Retry-After header: absent, a non-negative integer of seconds ("7"),
\* a decimal number of seconds ("2.5"), or an HTTP date (not a number).
NoHeader == [form |-> "absent", ms |-> 0]

RetryAfterHeaders ==
    { NoHeader,
      [form |-> "int", ms |-> Seconds(7)],
      [form |-> "int", ms |-> Seconds(120)],
      [form |-> "dec", ms |-> 2500],
      [form |-> "date", ms |-> 0] }

Statuses == {200, 400, 403, 404, 429, 500, 501, 502, 503, 504}

\* Only 429 and 503 responses carry Retry-After (RFC 9110, 10.2.3).
Responses ==
    { [kind |-> "response", status |-> s, retry_after |-> h] :
        s \in {429, 503}, h \in RetryAfterHeaders }
    \cup { [kind |-> "response", status |-> s, retry_after |-> NoHeader] :
             s \in Statuses \ {429, 503} }

Exceptions ==
    { [kind |-> k, status |-> 0, retry_after |-> NoHeader] :
        k \in {"Timeout", "ConnectionError"} }

Outcomes == Responses \cup Exceptions

NoOutcome == [kind |-> "none", status |-> 0, retry_after |-> NoHeader]

\* ---------------------------------------------------------------------
\* orders.py: request_with_backoff
\* ---------------------------------------------------------------------
NoExc == [kind |-> "none", attempt |-> 0]

NoError == [kind |-> "none", exhausted |-> FALSE, carries |-> 0, status |-> 0]

\* BASE_BACKOFF * (2 ** (attempt - 1)), in ms
ExpBackoff(attempt) == Seconds(BASE_BACKOFF * 2 ^ (attempt - 1))

\* random.uniform(0, 0.25 * sleep_s): j selects the lower end, the middle
\* or the upper end of the interval.
JitterChoices == 0 .. 2

Jitter(sleep_s, j) == ((sleep_s \div 4) * j) \div 2

\* sleep_s += random.uniform(0, 0.25 * sleep_s); time.sleep(min(sleep_s, 60))
BackoffSleep(sleep_s, j) == Min(sleep_s + Jitter(sleep_s, j), Seconds(60))

\* float(retry_after): <<v>> when it parses, <<>> on ValueError
ParseFloat(h) == IF h.form \in {"int", "dec"} THEN <<h.ms>> ELSE <<>>

\* The sleep base chosen on a 429.
RateLimitSleep(h, attempt) ==
    IF h.form # "absent" /\ ParseFloat(h) # <<>>
    THEN ParseFloat(h)[1]
    ELSE ExpBackoff(attempt)

TransientStatuses == {500, 502, 503, 504}

\* resp.raise_for_status() raises HTTPError for 4xx and 5xx.
RaisesForStatus(status) == status >= 400 /\ status < 600

\* Bug variant: the except clause for timeouts and connection failures is
\* missing, so the exception leaves the function on the attempt it occurs.
RWB_Iteration_NoExcept(attempt, last_exc, o, j) ==
    IF o.kind = "response"
    THEN IF o.status = 429
         THEN [ctl |-> "continue", last_exc |-> last_exc,
               sleep |-> <<BackoffSleep(RateLimitSleep(o.retry_after, attempt), j)>>]
         ELSE IF o.status \in TransientStatuses
         THEN [ctl |-> "continue", last_exc |-> last_exc,
               sleep |-> <<BackoffSleep(ExpBackoff(attempt), j)>>]
         ELSE IF RaisesForStatus(o.status)
         THEN [ctl |-> "raise", last_exc |-> last_exc, sleep |-> <<>>]
         ELSE [ctl |-> "return", last_exc |-> last_exc, sleep |-> <<>>]
    ELSE [ctl |-> "raise", last_exc |-> last_exc, sleep |-> <<>>]

\* Bug variant: every error status is retried, 4xx included.
RWB_Iteration_RetryAll(attempt, last_exc, o, j) ==
    IF o.kind = "response"
    THEN IF o.status = 429
         THEN [ctl |-> "continue", last_exc |-> last_exc,
               sleep |-> <<BackoffSleep(RateLimitSleep(o.retry_after, attempt), j)>>]
         ELSE IF RaisesForStatus(o.status)
         THEN [ctl |-> "continue", last_exc |-> last_exc,
               sleep |-> <<BackoffSleep(ExpBackoff(attempt), j)>>]
         ELSE [ctl |-> "return", last_exc |-> last_exc, sleep |-> <<>>]
    ELSE [ctl |-> "continue",
          last_exc |-> [kind |-> o.kind, attempt |-> attempt],
          sleep |-> <<BackoffSleep(ExpBackoff(attempt), j)>>]

\* One iteration of the `for attempt in range(1, MAX_RETRIES + 1)` loop.
RWB_Iteration(attempt, last_exc, o, j) ==
    IF o.kind = "response"
    THEN IF o.status = 429
         THEN [ctl |-> "continue", last_exc |-> last_exc,
               sleep |-> <<BackoffSleep(RateLimitSleep(o.retry_after, attempt), j)>>]
         ELSE IF o.status \in TransientStatuses
         THEN [ctl |-> "continue", last_exc |-> last_exc,
               sleep |-> <<BackoffSleep(ExpBackoff(attempt), j)>>]
         ELSE IF RaisesForStatus(o.status)
         THEN [ctl |-> "raise", last_exc |-> last_exc, sleep |-> <<>>]
         ELSE [ctl |-> "return", last_exc |-> last_exc, sleep |-> <<>>]
    ELSE [ctl |-> "continue",
          last_exc |-> [kind |-> o.kind, attempt |-> attempt],
          sleep |-> <<BackoffSleep(ExpBackoff(attempt), j)>>]

\* What is raised once the loop has run out of attempts.
RWB_Exhausted(last_exc) ==
    IF last_exc.kind # "none"
    THEN [kind |-> last_exc.kind, exhausted |-> TRUE,
          carries |-> last_exc.attempt, status |-> 0]
    ELSE [kind |-> "RuntimeError", exhausted |-> TRUE, carries |-> 0, status |-> 0]

\* One attempt of request_with_backoff and what the function does next:
\* "retry" (another attempt follows), "returned" or "raised".
RWB_Step(attempt, last_exc, o, j) ==
    LET it == RWB_Iteration(attempt, last_exc, o, j) IN
    CASE it.ctl = "return" ->
           [ctl |-> "returned", last_exc |-> it.last_exc, sleep |-> it.sleep,
            error |-> NoError]
      [] it.ctl = "raise" ->
           [ctl |-> "raised", last_exc |-> it.last_exc, sleep |-> it.sleep,
            error |-> [kind |-> "HTTPError", exhausted |-> FALSE,
                       carries |-> attempt, status |-> o.status]]
      [] it.ctl = "continue" /\ attempt < MAX_RETRIES ->
           [ctl |-> "retry", last_exc |-> it.last_exc, sleep |-> it.sleep,
            error |-> NoError]
      [] OTHER ->
           [ctl |-> "raised", last_exc |-> it.last_exc, sleep |-> it.sleep,
            error |-> RWB_Exhausted(it.last_exc)]

\* ---------------------------------------------------------------------
\* customers.py: get_with_429_retry
\* ---------------------------------------------------------------------
\* retry_after.strip().isdigit()
IsDigit(h) == h.form = "int"

\* The sleep after a 429, `retries` already incremented.
G429_Sleep(h, retries) ==
    IF h.form # "absent" /\ IsDigit(h)
    THEN h.ms
    ELSE Seconds(Min(DEFAULT_RETRY_AFTER + (retries - 1), 30))

\* Bug variant: the budget test is `retries > MAX_429_RETRIES + 1`.
G429_Step_OneMore(retries, o) ==
    IF o.kind # "response"
    THEN [ctl |-> "raised", retries |-> retries, sleep |-> <<>>,
          error |-> [kind |-> o.kind, exhausted |-> FALSE,
                     carries |-> retries + 1, status |-> 0]]
    ELSE IF o.status # 429
    THEN [ctl |-> "returned", retries |-> retries, sleep |-> <<>>,
          error |-> NoError]
    ELSE IF retries + 1 > MAX_429_RETRIES + 1
    THEN [ctl |-> "raised", retries |-> retries + 1, sleep |-> <<>>,
          error |-> [kind |-> "HTTPError", exhausted |-> TRUE,
                     carries |-> retries + 1, status |-> 429]]
    ELSE [ctl |-> "retry", retries |-> retries + 1,
          sleep |-> <<G429_Sleep(o.retry_after, retries + 1)>>,
          error |-> NoError]

\* Bug variant: requests.get is called without a timeout, so a request the
\* upstream never answers blocks the call for good instead of raising.
G429_Step_NoTimeout(retries, o) ==
    IF o.kind = "Timeout"
    THEN [ctl |-> "blocked", retries |-> retries, sleep |-> <<>>,
          error |-> NoError]
    ELSE IF o.kind # "response"
    THEN [ctl |-> "raised", retries |-> retries, sleep |-> <<>>,
          error |-> [kind |-> o.kind, exhausted |-> FALSE,
                     carries |-> retries + 1, status |-> 0]]
    ELSE IF o.status # 429
    THEN [ctl |-> "returned", retries |-> retries, sleep |-> <<>>,
          error |-> NoError]
    ELSE IF retries + 1 > MAX_429_RETRIES
    THEN [ctl |-> "raised", retries |-> retries + 1, sleep |-> <<>>,
          error |-> [kind |-> "HTTPError", exhausted |-> TRUE,
                     carries |-> retries + 1, status |-> 429]]
    ELSE [ctl |-> "retry", retries |-> retries + 1,
          sleep |-> <<G429_Sleep(o.retry_after, retries + 1)>>,
          error |-> NoError]

\* One iteration of the `while True` loop, entered with `retries`.
\* requests.get raising (timeout, connection failure) is not caught.
G429_Step(retries, o) ==
    IF o.kind # "response"
    THEN [ctl |-> "raised", retries |-> retries, sleep |-> <<>>,
          error |-> [kind |-> o.kind, exhausted |-> FALSE,
                     carries |-> retries + 1, status |-> 0]]
    ELSE IF o.status # 429
    THEN [ctl |-> "returned", retries |-> retries, sleep |-> <<>>,
          error |-> NoError]
    ELSE IF retries + 1 > MAX_429_RETRIES
    THEN [ctl |-> "raised", retries |-> retries + 1, sleep |-> <<>>,
          error |-> [kind |-> "HTTPError", exhausted |-> TRUE,
                     carries |-> retries + 1, status |-> 429]]
    ELSE [ctl |-> "retry", retries |-> retries + 1,
          sleep |-> <<G429_Sleep(o.retry_after, retries + 1)>>,
          error |-> NoError]

\* ---------------------------------------------------------------------
\* Whole calls of the fetchers
\* ---------------------------------------------------------------------
\* The upstream's answers to the successive requests of one logical fetch:
\* seq[i] answers request i, and the last answer repeats from then on.
Nth(seq, i) == seq[Min(i, Len(seq))]

Resp(s) == [kind |-> "response", status |-> s, retry_after |-> NoHeader]

Exc(k) == [kind |-> k, status |-> 0, retry_after |-> NoHeader]

Scenarios ==
    { <<Resp(200)>>,
      <<[kind |-> "response", status |-> 429,
         retry_after |-> [form |-> "int", ms |-> Seconds(7)]], Resp(200)>>,
      <<Resp(503), Resp(200)>>,
      <<Exc("Timeout"), Resp(200)>>,
      <<Exc("ConnectionError"), Resp(200)>>,
      <<Resp(400)>>,
      <<Resp(403)>>,
      <<Resp(404)>>,
      <<Resp(429)>>,
      <<Resp(503)>>,
      <<Exc("Timeout"), Resp(503)>> }

\* request_with_backoff(url, headers, params) against the answers seq.
RECURSIVE RWB_Run(_, _, _)
RWB_Run(seq, a, exc) ==
    LET o == Nth(seq, a)
        r == RWB_Step(a, exc, o, 0)
    IN  IF r.ctl = "retry"
        THEN RWB_Run(seq, a + 1, r.last_exc)
        ELSE [ctl |-> r.ctl, nreq |-> a, error |-> r.error,
              status |-> IF r.ctl = "returned" THEN o.status ELSE 0]

request_with_backoff(seq) == RWB_Run(seq, 1, NoExc)

\* get_with_429_retry(url, headers, params, timeout) against the answers seq.
RECURSIVE G429_Run(_, _)
G429_Run(seq, r0) ==
    LET o == Nth(seq, r0 + 1)
        r == G429_Step(r0, o)
    IN  IF r.ctl = "retry"
        THEN G429_Run(seq, r.retries)
        ELSE [ctl |-> r.ctl, nreq |-> r0 + 1, error |-> r.error,
              status |-> IF r.ctl = "returned" THEN o.status ELSE 0]

get_with_429_retry(seq) == G429_Run(seq, 0)

\* requests.get(BASE_URL, ...) of catalog.py: one request, no retry.
requests_get(seq) ==
    IF seq[1].kind = "response"
    THEN [ctl |-> "returned", nreq |-> 1, error |-> NoError,
          status |-> seq[1].status]
    ELSE [ctl |-> "raised", nreq |-> 1, status |-> 0,
          error |-> [kind |-> seq[1].kind, exhausted |-> FALSE,
                     carries |-> 1, status |-> 0]]

\* resp.raise_for_status() on what the fetcher handed back.
RaiseForStatus(r) ==
    IF r.ctl = "returned" /\ RaisesForStatus(r.status)
    THEN [ctl |-> "raised", nreq |-> r.nreq, status |-> 0,
          error |-> [kind |-> "HTTPError", exhausted |-> FALSE,
                     carries |-> r.nreq, status |-> r.status]]
    ELSE r

\* ---------------------------------------------------------------------
\* The listings of the upstream
\* ---------------------------------------------------------------------
\* A listing with meta.pagination reports total_pages >= 1 pages: full pages
\* and a last page of any length (an empty listing is one empty page); a
\* page before the last may come back empty (entities deleted meanwhile).
\* A listing may also answer without meta.pagination.
Listings(maxPages) ==
    { [meta |-> TRUE, total_pages |-> t] : t \in 1 .. maxPages }
    \cup { [meta |-> FALSE, total_pages |-> 1] }

Upstreams == Listings(MaxPages)

NoUpstream == [meta |-> FALSE, total_pages |-> 0]

LastPageSizes == {0, ShortPage, LIMIT}

PageSizes(up, p) ==
    IF p < up.total_pages THEN {0, LIMIT}
    ELSE IF p = up.total_pages THEN LastPageSizes
    ELSE {0}

\* The JSON body of one page: `data` by its length n, the number noid of its
\* entities without "id", the numbers need_addr / need_attr of its customers
\* whose address_count / attribute_count exceeds the inline list, and
\* meta.pagination.
Body(shape, n, noid, na, nt, meta, cp, tp) ==
    [shape |-> shape, n |-> n, noid |-> noid, need_addr |-> na,
     need_attr |-> nt, meta |-> meta, current_page |-> cp, total_pages |-> tp]

NoBody == Body("none", 0, 0, 0, 0, FALSE, 0, 0)

MetaBodies(up, p) ==
    { Body("object", k, 0, 0, 0, up.meta, p, up.total_pages) :
        k \in PageSizes(up, p) }

\* A customer is flagged only if it has an id; at most MaxFlagged customers
\* of a page are flagged for one sub-resource.
NeedChoices(k) == {0, Min(k, MaxFlagged)}

CustomerPagesOf(up, p, k, d) ==
    { Body("object", k, d, na, nt, up.meta, p, up.total_pages) :
        na \in NeedChoices(k - d), nt \in NeedChoices(k - d) }

CustomerPages(up, p) ==
    UNION { CustomerPagesOf(up, p, kd[1], kd[2]) :
              kd \in { x \in PageSizes(up, p) \X (0 .. 1) : x[2] <= x[1] } }

\* /v2/orders answers with a bare array; the listing ends within MaxPages
\* pages.  The body may also be something else than an array.
OrdersBodies(p) ==
    { Body("list", k, 0, 0, 0, FALSE, 0, 0) :
        k \in IF p < MaxPages THEN LastPageSizes ELSE LastPageSizes \ {LIMIT} }
    \cup { Body("object", 0, 0, 0, 0, FALSE, 0, 0) }

\* ---------------------------------------------------------------------
\* Page walkers
\* ---------------------------------------------------------------------
\* pagination.get("current_page", page), pagination.get("total_pages", page)
CurrentPage(body, p) == IF body.meta THEN body.current_page ELSE p

TotalPages(body, p) == IF body.meta THEN body.total_pages ELSE p

\* Bug variant: the walk goes on after a page with current_page = total_pages.
MetaStop_Strict(body, p) ==
    body.n = 0 \/ CurrentPage(body, p) > TotalPages(body, p)

\* The metadata-driven walk ends after this page:
\* `if not data: break` ... `if current_page >= total_pages: break`.
MetaStop(body, p) ==
    body.n = 0 \/ CurrentPage(body, p) >= TotalPages(body, p)

\* Bug variant: only an empty page ends the walk.
OrdersStop_EmptyOnly(body) == body.n = 0

\* The length-inferring walk of fetch_all_orders ends after this page:
\* `if not data: break` ... `if len(data) < LIMIT: break`.
OrdersStop(body) == body.n = 0 \/ body.n < LIMIT

ShapeError ==
    [kind |-> "UnexpectedShape", exhausted |-> FALSE, carries |-> 0, status |-> 0]

VARIABLES
    \* --- one logical fetch, request by request (SpecFetch) ---
    fn,           \* the fetcher that runs
    fpc,          \* "running", "returned" or "raised"
    attempt,      \* request_with_backoff: `attempt` of the next iteration
    last_exc,     \* request_with_backoff: `last_exc`
    retries,      \* get_with_429_retry: `retries`
    nreq,         \* HTTP requests issued so far by the fetch
    lastAttempt,  \* the latest HTTP request: its outcome and what followed
    ferror,       \* the exception the fetch raised, if any
    \* --- one export run, logical fetch by logical fetch (Spec) ---
    script,       \* "catalog", "customers" or "orders"
    pc,           \* the function the run is in
    page,         \* `page` of the walk over the export's own listing
    upstream,     \* that listing
    cur,          \* body of the latest page received of that listing
    chunk,        \* 1-based index of the id chunk being fetched
    sub,          \* locals of the running fetch_paginated call
    all_rows,     \* `all_rows` of the running bulk fetch (its length)
    addr_map,     \* `addr_map` of the page (sub-records it holds)
    attr_map,     \* `attr_map` of the page (sub-records it holds)
    warnings,     \* warnings printed so far
    lastFetch,    \* the latest logical fetch and how it ended
    lastWalk,     \* the fetch_paginated call that returned in the latest step
    error,        \* the exception that ended the run, if any
    reqLog,       \* page numbers requested from the export's listing, in order
    walked,       \* lengths of the pages received from that listing, in order
    items,        \* `orders` of orders.py (its length)
    rows,         \* output rows built so far
    written,      \* rows written to the output file
    \* --- build_rows_one_per_order on its thread pool (SpecFanOut) ---
    orders,       \* `orders`, the argument
    fo_pc,        \* where the main thread is
    submitted,    \* orders passed to ex.submit so far
    queue,        \* work items of the pool no worker thread has taken yet
    inflight,     \* the running calls of worker(order), a bag
    finished,     \* futures that are done and not yet taken by the main thread
    taken,        \* futures the as_completed loop has taken so far
    fo_rows,      \* `rows`
    fo_error,     \* the exception fut.result() raised in the main thread
    faults,       \* answers other than a good 200 given so far
    fatal,        \* calls of worker(order) that ended in an exception
    started,      \* the orders whose product fetch has started, a bag
    lastStart,    \* the latest start of a call of worker(order)
    \* --- flattening and writing the rows of one export (SpecCsv) ---
    csv_script,   \* "customers", "orders" or "catalog"
    csv_pc,       \* "collect", "write_csv", "rows", "done" or "failed"
    records,      \* the entities the upstream sent, with their sub-records
    attr_defs,    \* `attr_id_to_name` of customers.py
    csv_i,        \* entities gone through so far
    flat,         \* the flattened rows (`rows`, `all_products`)
    fieldnames,   \* `fieldnames` of the writer
    lines,        \* the data lines written, each the texts of its cells
    csv_error,    \* the exception the writer raised, if any
    \* --- one bulk fetch by customer_id:in chunks (SpecBulk) ---
    endpoint,     \* "addresses" or "attribute-values"
    bulk_pc,      \* "chunks", "returned", "degraded" or "raised"
    customer_ids, \* `customer_ids`, the ids flagged on the page
    id_chunks,    \* the `customer_id:in` filter of each fetch_paginated call
    bulk_rows,    \* `all_rows`
    bulk_map,     \* the mapping returned
    bulk_error    \* the exception that left the function, if any

fetchVars == <<fn, fpc, attempt, last_exc, retries, nreq, lastAttempt, ferror>>

runVars == <<script, pc, page, upstream, cur, chunk, sub, all_rows, addr_map,
             attr_map, warnings, lastFetch, lastWalk, error, reqLog, walked,
             items, rows, written>>

fanVars == <<orders, fo_pc, submitted, queue, inflight, finished, taken,
             fo_rows, fo_error, faults, fatal, started, lastStart>>

csvVars == <<csv_script, csv_pc, records, attr_defs, csv_i, flat, fieldnames,
             lines, csv_error>>

bulkVars == <<endpoint, bulk_pc, customer_ids, id_chunks, bulk_rows, bulk_map,
              bulk_error>>

vars == <<fetchVars, runVars, fanVars, csvVars, bulkVars>>

NoAttempt ==
    [n |-> 0, outcome |-> NoOutcome, sleep |-> <<>>, ctl |-> "none"]

NoFetch ==
    [phase |-> "none", fn |-> "none", page |-> 0, seq |-> <<>>,
     status |-> 0, nreq |-> 0, raised |-> FALSE]

\* Locals of fetch_paginated on entry: page = 1, out = [].
SubStart == [page |-> 1, out |-> 0, up |-> NoUpstream]

NoWalk == [phase |-> "none", up |-> NoUpstream, requests |-> 0, out |-> 0,
           last |-> NoBody]

FetchIdle ==
    /\ fn = "none"
    /\ fpc = "idle"
    /\ attempt = 1
    /\ last_exc = NoExc
    /\ retries = 0
    /\ nreq = 0
    /\ lastAttempt = NoAttempt
    /\ ferror = NoError

RunStart(s, first) ==
    /\ script = s
    /\ pc = first
    /\ page = 1
    /\ cur = NoBody
    /\ chunk = 0
    /\ sub = SubStart
    /\ all_rows = 0
    /\ addr_map = 0
    /\ attr_map = 0
    /\ warnings = 0
    /\ lastFetch = NoFetch
    /\ lastWalk = NoWalk
    /\ error = NoError
    /\ reqLog = <<>>
    /\ walked = <<>>
    /\ items = 0
    /\ rows = 0
    /\ written = 0

\* ---------------------------------------------------------------------
\* orders.py build_rows_one_per_order: orders, workers and futures
\* ---------------------------------------------------------------------
\* An order as the fan-out sees it: its "id" and the rest of its content.
NoOrder == [id |-> 0, tag |-> "none"]

OrderRecords == [id : {1, 2}, tag : {"a", "b"}]

RECURSIVE Repeat(_, _)
Repeat(x, n) == IF n = 0 THEN <<>> ELSE <<x>> \o Repeat(x, n - 1)

\* The lists of orders fetch_all_orders may hand over: every list of at most
\* MaxOrders orders, and one list longer than the pool is wide, of orders
\* that differ in nothing the fan-out looks at.
OrderLists ==
    UNION { [1 .. n -> OrderRecords] : n \in 0 .. MaxOrders }
    \cup { Repeat([id |-> 1, tag |-> "a"], MAX_WORKERS + ExtraOrders) }

NoStart == [order |-> NoOrder, n |-> 0, afterFatal |-> FALSE,
            afterUnwind |-> FALSE]

\* The fan-out is not running.
FanIdle ==
    /\ orders = <<>>
    /\ fo_pc = "idle"
    /\ submitted = 0
    /\ queue = <<>>
    /\ inflight = EmptyBag
    /\ finished = EmptyBag
    /\ taken = 0
    /\ fo_rows = <<>>
    /\ fo_error = NoError
    /\ faults = 0
    /\ fatal = 0
    /\ started = EmptyBag
    /\ lastStart = NoStart

\* The flattening and writing of rows is not running.
CsvIdle ==
    /\ csv_script = "none"
    /\ csv_pc = "idle"
    /\ records = <<>>
    /\ attr_defs = <<>>
    /\ csv_i = 0
    /\ flat = <<>>
    /\ fieldnames = <<>>
    /\ lines = <<>>
    /\ csv_error = "none"

\* No bulk fetch is running.
BulkIdle ==
    /\ endpoint = "none"
    /\ bulk_pc = "idle"
    /\ customer_ids = <<>>
    /\ id_chunks = <<>>
    /\ bulk_rows = <<>>
    /\ bulk_map = <<>>
    /\ bulk_error = NoError

\* ---------------------------------------------------------------------
\* SpecFetch: one logical fetch
\* ---------------------------------------------------------------------
FetchInit ==
    /\ fn \in {"request_with_backoff", "get_with_429_retry"}
    /\ fpc = "running"
    /\ attempt = 1
    /\ last_exc = NoExc
    /\ retries = 0
    /\ nreq = 0
    /\ lastAttempt = NoAttempt
    /\ ferror = NoError
    /\ RunStart("none", "idle")
    /\ upstream = NoUpstream
    /\ FanIdle
    /\ CsvIdle
    /\ BulkIdle

\* One HTTP request of request_with_backoff and the code up to the next.
RwbAttempt ==
    /\ fn = "request_with_backoff"
    /\ fpc = "running"
    /\ \E o \in Outcomes, j \in JitterChoices :
         LET r == RWB_Step(attempt, last_exc, o, j) IN
         /\ lastAttempt' = [n |-> nreq + 1, outcome |-> o,
                            sleep |-> r.sleep, ctl |-> r.ctl]
         /\ nreq' = nreq + 1
         /\ last_exc' = r.last_exc
         /\ attempt' = IF r.ctl = "retry" THEN attempt + 1 ELSE attempt
         /\ fpc' = IF r.ctl = "retry" THEN "running" ELSE r.ctl
         /\ ferror' = r.error
    /\ UNCHANGED <<fn, retries, runVars, fanVars, csvVars, bulkVars>>

\* One HTTP request of get_with_429_retry and the code up to the next.
G429Attempt ==
    /\ fn = "get_with_429_retry"
    /\ fpc = "running"
    /\ \E o \in Outcomes :
         LET r == G429_Step(retries, o) IN
         /\ lastAttempt' = [n |-> nreq + 1, outcome |-> o,
                            sleep |-> r.sleep, ctl |-> r.ctl]
         /\ nreq' = nreq + 1
         /\ retries' = r.retries
         /\ fpc' = IF r.ctl = "retry" THEN "running" ELSE r.ctl
         /\ ferror' = r.error
    /\ UNCHANGED <<fn, attempt, last_exc, runVars, fanVars, csvVars, bulkVars>>

FetchNext == RwbAttempt \/ G429Attempt

SpecFetch == FetchInit /\ [][FetchNext]_vars

\* A running call goes on: requests.get answers or raises within its
\* timeout (TIMEOUT, timeout=60) and every time.sleep is finite.
SpecFetchLive == FetchInit /\ [][FetchNext]_vars /\ WF_vars(FetchNext)

\* ---------------------------------------------------------------------
\* Spec: the three exports
\* ---------------------------------------------------------------------
Init ==
    /\ FetchIdle
    /\ FanIdle
    /\ CsvIdle
    /\ BulkIdle
    /\ \/ RunStart("catalog", "fetch_all_products")
       \/ RunStart("customers", "fetch_attribute_definitions")
       \/ RunStart("orders", "fetch_all_orders")
    /\ upstream \in IF script = "orders" THEN {NoUpstream} ELSE Upstreams

\* The calls of the fetchers on each of the scenarios.
RwbResults == [seq \in Scenarios |-> request_with_backoff(seq)]

G429Results == [seq \in Scenarios |-> get_with_429_retry(seq)]

GetResults == [seq \in Scenarios |-> requests_get(seq)]

Fetched(f, p, seq, r0, r) ==
    [phase |-> pc, fn |-> f, page |-> p, seq |-> seq, status |-> r0.status,
     nreq |-> r0.nreq, raised |-> r.ctl = "raised"]

\* Bug variant: the exception is swallowed and the run goes on to write
\* the rows collected so far.
Abort_WritesPartial(e) ==
    /\ pc' = "write_csv"
    /\ error' = e

\* The run ends with the exception e.
Abort(e) ==
    /\ pc' = "failed"
    /\ error' = e

\* The bodies a fetch that ended as r may have brought: none if it raised.
BodiesOf(r, bodies) == IF r.ctl = "raised" THEN {NoBody} ELSE bodies

\* catalog.py fetch_all_products: one iteration of the `while True` loop.
FetchAllProductsPage ==
    /\ pc = "fetch_all_products"
    /\ \E seq \in Scenarios :
         LET r0 == GetResults[seq]
             r  == RaiseForStatus(r0)
         IN  \E body \in BodiesOf(r, MetaBodies(upstream, page)) :
             /\ lastFetch' = Fetched("requests.get", page, seq, r0, r)
             /\ reqLog' = Append(reqLog, page)
             /\ IF r.ctl = "raised"
                THEN /\ Abort(r.error)
                     /\ UNCHANGED <<page, cur, walked, rows>>
                ELSE /\ cur' = body
                     /\ walked' = Append(walked, body.n)
                     /\ rows' = rows + body.n
                     /\ error' = error
                     /\ IF MetaStop(body, page)
                        THEN pc' = "write_csv" /\ page' = page
                        ELSE pc' = pc /\ page' = page + 1
    /\ UNCHANGED <<fetchVars, fanVars, csvVars, bulkVars, script, upstream, chunk, sub, all_rows, addr_map,
                   attr_map, warnings, lastWalk, items, written>>

\* orders.py fetch_all_orders: one iteration of the `while True` loop.
FetchAllOrdersPage ==
    /\ pc = "fetch_all_orders"
    /\ \E seq \in Scenarios :
         LET r == RwbResults[seq]
         IN  \E body \in BodiesOf(r, OrdersBodies(page)) :
             /\ lastFetch' = Fetched("request_with_backoff", page, seq, r, r)
             /\ reqLog' = Append(reqLog, page)
             /\ IF r.ctl = "raised"
                THEN /\ Abort(r.error)
                     /\ UNCHANGED <<page, cur, walked, items>>
                ELSE IF body.shape # "list"
                THEN /\ Abort(ShapeError)
                     /\ cur' = body
                     /\ UNCHANGED <<page, walked, items>>
                ELSE /\ cur' = body
                     /\ walked' = Append(walked, body.n)
                     /\ items' = items + body.n
                     /\ error' = error
                     /\ IF OrdersStop(body)
                        THEN pc' = "build_rows_one_per_order" /\ page' = page
                        ELSE pc' = pc /\ page' = page + 1
    /\ UNCHANGED <<fetchVars, fanVars, csvVars, bulkVars, script, upstream, chunk, sub, all_rows, addr_map,
                   attr_map, warnings, lastWalk, rows, written>>

\* orders.py build_rows_one_per_order: the main thread takes the result of
\* one more future (worker: fetch_order_products, normalize_row); after the
\* last one it sorts the rows and returns.  With no order there is no future.
OrderProducts ==
    /\ pc = "build_rows_one_per_order"
    /\ IF rows = items
       THEN /\ pc' = "write_csv"
            /\ UNCHANGED <<lastFetch, error, rows>>
       ELSE \E seq \in Scenarios :
              LET r == RwbResults[seq]
              IN  \E shape \in IF r.ctl = "raised" THEN {"none"}
                               ELSE {"list", "object"} :
                  /\ lastFetch' = Fetched("request_with_backoff", 0, seq, r, r)
                  /\ IF r.ctl = "raised"
                     THEN Abort(r.error) /\ rows' = rows
                     ELSE IF shape # "list"
                     THEN Abort(ShapeError) /\ rows' = rows
                     ELSE /\ rows' = rows + 1
                          /\ error' = error
                          /\ pc' = IF rows + 1 = items THEN "write_csv" ELSE pc
    /\ UNCHANGED <<fetchVars, fanVars, csvVars, bulkVars, script, page, upstream, cur, chunk, sub, all_rows,
                   addr_map, attr_map, warnings, lastWalk, reqLog, walked,
                   items, written>>

\* customers.py chunked_ints(values, n): the number of chunks of m ids.
ChunkCount(m) == (m + ID_IN_CHUNK - 1) \div ID_IN_CHUNK

\* customers.py group_by_customer_id: sub-records held by the mapping built
\* from `items` sub-records that all carry a customer_id.
GroupCount(n) == n

\* The listing a fetch_paginated call walks is fixed by its first request.
SubUpstreams(listings) == IF sub.page = 1 THEN listings ELSE {sub.up}

\* The listing and the page body a fetch of fetch_paginated may have brought.
SubPages(r, listings) ==
    IF r.ctl = "raised" THEN {<<sub.up, NoBody>>}
    ELSE UNION { { <<up, b>> : b \in MetaBodies(up, sub.page) } :
                   up \in SubUpstreams(listings) }

\* customers.py fetch_paginated: one iteration of its `while True` loop on
\* the fetch result r (after raise_for_status) and the page body.
FP_Step(s, r, body) ==
    IF r.ctl = "raised"
    THEN [ctl |-> "raise", sub |-> s, error |-> r.error]
    ELSE LET s2 == [s EXCEPT !.out = @ + body.n]
         IN  IF MetaStop(body, s.page)
             THEN [ctl |-> "return", sub |-> s2, error |-> NoError]
             ELSE [ctl |-> "continue", sub |-> [s2 EXCEPT !.page = @ + 1],
                   error |-> NoError]

Walk(s, body) ==
    [phase |-> pc, up |-> s.up, requests |-> s.page, out |-> s.out,
     last |-> body]

\* customers.py fetch_attribute_definitions: one page of its fetch_paginated;
\* after the last page the id -> name mapping is built and the customer
\* walk starts.
AttributeDefinitionsPage ==
    /\ pc = "fetch_attribute_definitions"
    /\ \E seq \in Scenarios :
         LET r0 == G429Results[seq]
             r  == RaiseForStatus(r0)
         IN  \E ub \in SubPages(r, Upstreams) :
             LET st == FP_Step([sub EXCEPT !.up = ub[1]], r, ub[2])
             IN  /\ lastFetch' = Fetched("get_with_429_retry", sub.page, seq, r0, r)
                 /\ CASE st.ctl = "raise" ->
                           /\ Abort(st.error)
                           /\ lastWalk' = NoWalk
                           /\ sub' = sub
                      [] st.ctl = "continue" ->
                           /\ sub' = st.sub
                           /\ lastWalk' = NoWalk
                           /\ UNCHANGED <<pc, error>>
                      [] OTHER ->
                           /\ lastWalk' = Walk(st.sub, ub[2])
                           /\ sub' = SubStart
                           /\ pc' = "fetch_all_customers_with_subresources"
                           /\ error' = error
    /\ UNCHANGED <<fetchVars, fanVars, csvVars, bulkVars, script, page, upstream, cur, chunk, all_rows,
                   addr_map, attr_map, warnings, reqLog, walked, items, rows,
                   written>>

\* A walk that flattens the page right after the address fetch, whether or
\* not attribute values are still to be fetched.
AfterAddresses_SkipAttributes(body) == "merge"

\* What follows the customer page: the bulk fetches it needs, then "merge".
AfterAddresses(body) ==
    IF body.need_attr > 0 THEN "fetch_attribute_values_for_customers"
    ELSE "merge"

AfterPage(body) ==
    IF body.need_addr > 0 THEN "fetch_addresses_for_customers"
    ELSE AfterAddresses(body)

\* Rows the second `for c in customers` loop appends: customers without an
\* id are skipped (`if cid is None: continue`).
RowsOfPage(body) == body.n - body.noid

\* Go on to `target`.  "merge" is the rest of the loop body of
\* fetch_all_customers_with_subresources: merge the maps onto the customers,
\* normalize them into rows, test the pagination.
Proceed(target, body) ==
    /\ sub' = SubStart
    /\ all_rows' = 0
    /\ IF target = "merge"
       THEN /\ rows' = rows + RowsOfPage(body)
            /\ chunk' = 0
            /\ IF MetaStop(body, page)
               THEN pc' = "write_csv" /\ page' = page
               ELSE /\ pc' = "fetch_all_customers_with_subresources"
                    /\ page' = page + 1
       ELSE /\ pc' = target
            /\ chunk' = 1
            /\ rows' = rows
            /\ page' = page

\* customers.py fetch_all_customers_with_subresources: the request of one
\* customer page and the loop body up to the first bulk fetch, if any.
CustomersPage ==
    /\ pc = "fetch_all_customers_with_subresources"
    /\ \E seq \in Scenarios :
         LET r0 == G429Results[seq]
             r  == RaiseForStatus(r0)
         IN  \E body \in BodiesOf(r, CustomerPages(upstream, page)) :
             /\ lastFetch' = Fetched("get_with_429_retry", page, seq, r0, r)
             /\ reqLog' = Append(reqLog, page)
             /\ IF r.ctl = "raised"
                THEN /\ Abort(r.error)
                     /\ UNCHANGED <<page, cur, chunk, sub, all_rows, addr_map,
                                    attr_map, walked, rows>>
                ELSE /\ cur' = body
                     /\ walked' = Append(walked, body.n)
                     /\ error' = error
                     /\ addr_map' = 0
                     /\ attr_map' = 0
                     /\ IF body.n = 0
                        THEN /\ pc' = "write_csv"
                             /\ UNCHANGED <<page, chunk, sub, all_rows, rows>>
                        ELSE Proceed(AfterPage(body), body)
    /\ lastWalk' = NoWalk
    /\ UNCHANGED <<fetchVars, fanVars, csvVars, bulkVars, script, upstream, warnings, items, written>>

\* customers.py fetch_addresses_for_customers: one page of the
\* fetch_paginated call of the current id chunk.
AddressesPage ==
    /\ pc = "fetch_addresses_for_customers"
    /\ \E seq \in Scenarios :
         LET r0 == G429Results[seq]
             r  == RaiseForStatus(r0)
         IN  \E ub \in SubPages(r, Listings(MaxSubPages)) :
             LET st == FP_Step([sub EXCEPT !.up = ub[1]], r, ub[2])
             IN  /\ lastFetch' = Fetched("get_with_429_retry", sub.page, seq, r0, r)
                 /\ CASE st.ctl = "raise" ->
                           /\ Abort(st.error)
                           /\ lastWalk' = NoWalk
                           /\ UNCHANGED <<page, chunk, sub, all_rows, addr_map,
                                          rows>>
                      [] st.ctl = "continue" ->
                           /\ sub' = st.sub
                           /\ lastWalk' = NoWalk
                           /\ UNCHANGED <<pc, page, chunk, all_rows, addr_map,
                                          error, rows>>
                      [] OTHER ->
                           /\ lastWalk' = Walk(st.sub, ub[2])
                           /\ error' = error
                           /\ IF chunk < ChunkCount(cur.need_addr)
                              THEN /\ chunk' = chunk + 1
                                   /\ sub' = SubStart
                                   /\ all_rows' = all_rows + st.sub.out
                                   /\ UNCHANGED <<pc, page, addr_map, rows>>
                              ELSE /\ addr_map' = GroupCount(all_rows + st.sub.out)
                                   /\ Proceed(AfterAddresses(cur), cur)
    /\ UNCHANGED <<fetchVars, fanVars, csvVars, bulkVars, script, upstream, cur, attr_map, warnings,
                   reqLog, walked, items, written>>

\* `except requests.HTTPError as e` with e.response.status_code in (403, 404)
Degrades(e) == e.kind = "HTTPError" /\ e.status \in {403, 404}

\* customers.py fetch_attribute_values_for_customers: one page of the
\* fetch_paginated call of the current id chunk.
AttributeValuesPage ==
    /\ pc = "fetch_attribute_values_for_customers"
    /\ \E seq \in Scenarios :
         LET r0 == G429Results[seq]
             r  == RaiseForStatus(r0)
         IN  \E ub \in SubPages(r, Listings(MaxSubPages)) :
             LET st == FP_Step([sub EXCEPT !.up = ub[1]], r, ub[2])
             IN  /\ lastFetch' = Fetched("get_with_429_retry", sub.page, seq, r0, r)
                 /\ CASE st.ctl = "raise" /\ Degrades(st.error) ->
                           /\ warnings' = warnings + 1
                           /\ attr_map' = 0
                           /\ lastWalk' = NoWalk
                           /\ error' = error
                           /\ Proceed("merge", cur)
                      [] st.ctl = "raise" /\ ~ Degrades(st.error) ->
                           /\ Abort(st.error)
                           /\ lastWalk' = NoWalk
                           /\ UNCHANGED <<page, chunk, sub, all_rows, attr_map,
                                          warnings, rows>>
                      [] st.ctl = "continue" ->
                           /\ sub' = st.sub
                           /\ lastWalk' = NoWalk
                           /\ UNCHANGED <<pc, page, chunk, all_rows, attr_map,
                                          warnings, error, rows>>
                      [] OTHER ->
                           /\ lastWalk' = Walk(st.sub, ub[2])
                           /\ UNCHANGED <<warnings, error>>
                           /\ IF chunk < ChunkCount(cur.need_attr)
                              THEN /\ chunk' = chunk + 1
                                   /\ sub' = SubStart
                                   /\ all_rows' = all_rows + st.sub.out
                                   /\ UNCHANGED <<pc, page, attr_map, rows>>
                              ELSE /\ attr_map' = GroupCount(all_rows + st.sub.out)
                                   /\ Proceed("merge", cur)
    /\ UNCHANGED <<fetchVars, fanVars, csvVars, bulkVars, script, upstream, cur, addr_map, reqLog, walked,
                   items, written>>

\* write_csv / write_products_to_csv: nothing is written for no rows.
WriteCsv ==
    /\ pc = "write_csv"
    /\ written' = rows
    /\ pc' = "done"
    /\ lastWalk' = NoWalk
    /\ UNCHANGED <<fetchVars, fanVars, csvVars, bulkVars, script, page, upstream, cur, chunk, sub, all_rows,
                   addr_map, attr_map, warnings, lastFetch, error, reqLog,
                   walked, items, rows>>

Next ==
    \/ FetchAllProductsPage
    \/ AttributeDefinitionsPage
    \/ CustomersPage
    \/ AddressesPage
    \/ AttributeValuesPage
    \/ FetchAllOrdersPage
    \/ OrderProducts
    \/ WriteCsv

Spec == Init /\ [][Next]_vars

\* ---------------------------------------------------------------------
\* SpecFanOut: build_rows_one_per_order on its thread pool
\* ---------------------------------------------------------------------
\* ThreadPoolExecutor(max_workers=MAX_WORKERS): a work item is taken from
\* the queue by an idle worker thread, or by a new one while the pool has
\* fewer than MAX_WORKERS threads; n calls are running.
PoolHasRoom_Unbounded(n) == TRUE

PoolHasRoom(n) == n < MAX_WORKERS

\* What the upstream answers to one product request: a response or an
\* exception of requests.get, and the shape of the JSON body of a 200.
GoodAnswer == [o |-> Resp(200), shape |-> "list"]

FanAnswers ==
    { GoodAnswer,
      [o |-> Resp(200), shape |-> "object"],
      [o |-> Resp(503), shape |-> "none"],
      [o |-> Resp(404), shape |-> "none"],
      [o |-> Exc("Timeout"), shape |-> "none"] }

\* worker(order) on entry: request_with_backoff starts with attempt = 1 and
\* last_exc = None, both locals of the call.
WorkerCall(order) ==
    [order |-> order, attempt |-> 1, last_exc |-> NoExc, nreq |-> 0]

\* The row worker(order) returns: normalize_row(order) plus products_json.
WorkerRow(order) == [id |-> order.id, tag |-> order.tag]

RowResult(row) == [kind |-> "row", row |-> row, error |-> NoError]

ErrorResult(e) == [kind |-> "error", row |-> NoOrder, error |-> e]

\* key=lambda r: int(r.get("id") or 0)
SortKey(r) == IF r.id = 0 THEN 0 ELSE r.id

\* list.sort is stable: a row goes behind the rows whose key is not larger.
RECURSIVE InsertRow(_, _)
InsertRow(sorted, r) ==
    IF sorted = <<>> THEN <<r>>
    ELSE IF SortKey(sorted[Len(sorted)]) <= SortKey(r)
    THEN Append(sorted, r)
    ELSE Append(InsertRow(SubSeq(sorted, 1, Len(sorted) - 1), r),
                sorted[Len(sorted)])

\* rows.sort(key=...)
RECURSIVE SortRows(_)
SortRows(rs) ==
    IF rs = <<>> THEN <<>>
    ELSE InsertRow(SortRows(SubSeq(rs, 1, Len(rs) - 1)), rs[Len(rs)])

FanInit ==
    /\ FetchIdle
    /\ RunStart("none", "idle")
    /\ upstream = NoUpstream
    /\ CsvIdle
    /\ BulkIdle
    /\ orders \in OrderLists
    /\ fo_pc = "submit"
    /\ submitted = 0
    /\ queue = <<>>
    /\ inflight = EmptyBag
    /\ finished = EmptyBag
    /\ taken = 0
    /\ fo_rows = <<>>
    /\ fo_error = NoError
    /\ faults = 0
    /\ fatal = 0
    /\ started = EmptyBag
    /\ lastStart = NoStart

\* futures = [ex.submit(worker, o) for o in orders]: one more submit, or the
\* end of the list comprehension.
Submit ==
    /\ fo_pc = "submit"
    /\ IF submitted < Len(orders)
       THEN /\ queue' = Append(queue, orders[submitted + 1])
            /\ submitted' = submitted + 1
            /\ fo_pc' = fo_pc
       ELSE /\ fo_pc' = "as_completed"
            /\ UNCHANGED <<queue, submitted>>
    /\ UNCHANGED <<fetchVars, runVars, csvVars, bulkVars, orders, inflight, finished, taken,
                   fo_rows, fo_error, faults, fatal, started, lastStart>>

\* A worker thread takes the oldest work item and calls worker(order).  The
\* pool goes on doing so while the main thread leaves the `with` block:
\* __exit__ is shutdown(wait=True), which cancels no pending future.
WorkerStart ==
    /\ queue # <<>>
    /\ PoolHasRoom(BagCardinality(inflight))
    /\ inflight' = inflight (+) SetToBag({WorkerCall(Head(queue))})
    /\ queue' = Tail(queue)
    /\ started' = started (+) SetToBag({Head(queue)})
    /\ lastStart' = [order |-> Head(queue),
                     n |-> BagCardinality(started) + 1,
                     afterFatal |-> fatal > 0,
                     afterUnwind |-> fo_pc = "shutdown"]
    /\ UNCHANGED <<fetchVars, runVars, csvVars, bulkVars, orders, fo_pc, submitted, finished,
                   taken, fo_rows, fo_error, faults, fatal>>

\* One HTTP request of one running worker and the code up to its next
\* request or to the end of worker(order).
WorkerAttempt ==
    \E w \in BagToSet(inflight), a \in FanAnswers :
      /\ a # GoodAnswer => faults < MaxFaults
      /\ faults' = IF a = GoodAnswer THEN faults ELSE faults + 1
      /\ LET r    == RWB_Step(w.attempt, w.last_exc, a.o, 0)
             rest == inflight (-) SetToBag({w})
         IN  CASE r.ctl = "retry" ->
                    /\ inflight' = rest (+) SetToBag({
                           [w EXCEPT !.attempt = w.attempt + 1,
                                     !.last_exc = r.last_exc,
                                     !.nreq = w.nreq + 1]})
                    /\ UNCHANGED <<finished, fatal>>
               [] r.ctl = "raised" ->
                    /\ inflight' = rest
                    /\ finished' = finished (+) SetToBag({ErrorResult(r.error)})
                    /\ fatal' = fatal + 1
               [] r.ctl = "returned" /\ a.shape # "list" ->
                    /\ inflight' = rest
                    /\ finished' = finished (+) SetToBag({ErrorResult(ShapeError)})
                    /\ fatal' = fatal + 1
               [] OTHER ->
                    /\ inflight' = rest
                    /\ finished' =
                         finished (+) SetToBag({RowResult(WorkerRow(w.order))})
                    /\ fatal' = fatal
      /\ UNCHANGED <<fetchVars, runVars, csvVars, bulkVars, orders, fo_pc, submitted, queue,
                     taken, fo_rows, fo_error, started, lastStart>>

\* for fut in as_completed(futures): row = fut.result(); rows.append(row).
\* fut.result() raises what worker(order) raised, and the main thread
\* leaves the `with` block with it; after the last future it leaves the
\* block normally.
AsCompleted ==
    /\ fo_pc = "as_completed"
    /\ IF taken = Len(orders)
       THEN /\ fo_pc' = "shutdown"
            /\ UNCHANGED <<finished, taken, fo_rows, fo_error>>
       ELSE \E res \in BagToSet(finished) :
              /\ finished' = finished (-) SetToBag({res})
              /\ taken' = taken + 1
              /\ IF res.kind = "row"
                 THEN /\ fo_rows' = Append(fo_rows, res.row)
                      /\ UNCHANGED <<fo_pc, fo_error>>
                 ELSE /\ fo_pc' = "shutdown"
                      /\ fo_error' = res.error
                      /\ fo_rows' = fo_rows
    /\ UNCHANGED <<fetchVars, runVars, csvVars, bulkVars, orders, submitted, queue, inflight,
                   faults, fatal, started, lastStart>>

\* The end of the `with` block, shutdown(wait=True), returns once no work
\* item is queued or running; then the exception goes on to the caller, or
\* the rows are sorted and returned.
Shutdown ==
    /\ fo_pc = "shutdown"
    /\ queue = <<>>
    /\ inflight = EmptyBag
    /\ IF fo_error # NoError
       THEN fo_pc' = "raised" /\ fo_rows' = fo_rows
       ELSE fo_pc' = "returned" /\ fo_rows' = SortRows(fo_rows)
    /\ UNCHANGED <<fetchVars, runVars, csvVars, bulkVars, orders, submitted, queue, inflight,
                   finished, taken, fo_error, faults, fatal, started,
                   lastStart>>

FanNext == Submit \/ WorkerStart \/ WorkerAttempt \/ AsCompleted \/ Shutdown

SpecFanOut == FanInit /\ [][FanNext]_vars

\* =====================================================================
\* Records, flattening and the CSV layout
\* =====================================================================
\* A text is the sequence of its characters.  A JSON value is tagged with
\* its Python type: None, int, str (a text), list (of values) or dict (the
\* key-value pairs in insertion order).
None == [t |-> "none", v |-> <<>>]

Num(n) == [t |-> "int", v |-> <<n>>]

Str(text) == [t |-> "str", v |-> text]

List(item_list) == [t |-> "list", v |-> item_list]

Dict(pairs) == [t |-> "dict", v |-> pairs]

KV(k, v) == [k |-> k, v |-> v]

\* isinstance(v, (dict, list))
IsNested(v) == v.t \in {"dict", "list"}

\* bool(v)
Truthy(v) ==
    CASE v.t = "none" -> FALSE
      [] v.t = "int"  -> v.v[1] # 0
      [] OTHER        -> v.v # <<>>

\* a or b
Or(a, b) == IF Truthy(a) THEN a ELSE b

\* The characters the texts of the model are made of, by code point.
Alphabet ==
    <<"\"", ",", "0", "1", "2", "3", "4", "5", "6", "7", "8", "9", ":",
      "[", "\\", "]", "_", "a", "b", "c", "d", "e", "f", "g", "h", "i", "j",
      "k", "l", "m", "n", "o", "p", "q", "r", "s", "t", "u", "v", "w", "x",
      "y", "z", "{", "}">>

\* ord(c), up to an order-preserving renumbering
Ord(c) == CHOOSE i \in 1 .. Len(Alphabet) : Alphabet[i] = c

DigitChars == <<"0", "1", "2", "3", "4", "5", "6", "7", "8", "9">>

\* str(n) for n >= 0
RECURSIVE IntToText(_)
IntToText(n) ==
    IF n < 10 THEN <<DigitChars[n + 1]>>
    ELSE Append(IntToText(n \div 10), DigitChars[(n % 10) + 1])

\* c matches \d
IsDigitChar(c) == \E i \in 1 .. 10 : DigitChars[i] = c

\* int(text) of a text of digits
RECURSIVE TextToInt(_)
TextToInt(text) ==
    IF text = <<>> THEN 0
    ELSE 10 * TextToInt(SubSeq(text, 1, Len(text) - 1))
         + ((CHOOSE i \in 1 .. 10 : DigitChars[i] = text[Len(text)]) - 1)

\* a < b on str: lexicographic by code point
RECURSIVE TextLess(_, _)
TextLess(a, b) ==
    IF b = <<>> THEN FALSE
    ELSE IF a = <<>> THEN TRUE
    ELSE IF a[1] # b[1] THEN Ord(a[1]) < Ord(b[1])
    ELSE TextLess(Tail(a), Tail(b))

\* The text of a str inside JSON: quotes and backslashes escaped, character
\* by character (the text is halved so that a long text stays shallow).
RECURSIVE Escaped(_)
Escaped(text) ==
    IF text = <<>> THEN <<>>
    ELSE IF Len(text) = 1
    THEN (IF text[1] \in {"\"", "\\"} THEN <<"\\", text[1]>> ELSE text)
    ELSE Escaped(SubSeq(text, 1, Len(text) \div 2))
         \o Escaped(SubSeq(text, Len(text) \div 2 + 1, Len(text)))

\* json.dumps(v, separators=(",", ":"))
RECURSIVE Dumps(_)
RECURSIVE DumpsItems(_)
RECURSIVE DumpsPairs(_)
Dumps(v) ==
    CASE v.t = "none" -> <<"n", "u", "l", "l">>
      [] v.t = "int"  -> IntToText(v.v[1])
      [] v.t = "str"  -> <<"\"">> \o Escaped(v.v) \o <<"\"">>
      [] v.t = "list" -> <<"[">> \o DumpsItems(v.v) \o <<"]">>
      [] OTHER        -> <<"{">> \o DumpsPairs(v.v) \o <<"}">>

DumpsItems(item_list) ==
    IF item_list = <<>> THEN <<>>
    ELSE Dumps(item_list[1])
         \o (IF Len(item_list) > 1 THEN <<",">> ELSE <<>>)
         \o DumpsItems(Tail(item_list))

DumpsPairs(pairs) ==
    IF pairs = <<>> THEN <<>>
    ELSE <<"\"">> \o Escaped(pairs[1].k) \o <<"\"", ":">> \o Dumps(pairs[1].v)
         \o (IF Len(pairs) > 1 THEN <<",">> ELSE <<>>)
         \o DumpsPairs(Tail(pairs))

\* customers.py json_cell(v)
json_cell(v) == Str(Dumps(v))

\* --- dict operations on the pairs of a dict -------------------------
\* k in d
Has(d, k) == \E i \in 1 .. Len(d) : d[i].k = k

\* d.get(k, default)
GetOr(d, k, default) ==
    IF Has(d, k) THEN d[CHOOSE i \in 1 .. Len(d) : d[i].k = k].v ELSE default

\* d.get(k)
Get(d, k) == GetOr(d, k, None)

\* d[k] = v: in place for a key of d, at the end for a new key
Put(d, k, v) ==
    IF Has(d, k)
    THEN [i \in 1 .. Len(d) |-> IF d[i].k = k THEN KV(k, v) ELSE d[i]]
    ELSE Append(d, KV(k, v))

\* The sequence f with its elements computed: TLC keeps `[i \in S |-> e]` as
\* the expression e and evaluates it at each application.
Table(f) == Tail(<<0>> \o f)

\* TLC evaluates an argument of an operator where it is first used.  The
\* loops below look at their accumulator before anything else, so that each
\* iteration works on a value and not on the pending expression of all the
\* iterations before it.
Evaluated(x) == x = x

\* d.update(other), other being a dict (its keys are distinct): the keys d
\* has take the value of other in place, the others follow in their order.
Update(d, other) ==
    [i \in 1 .. Len(d) |-> KV(d[i].k, GetOr(other, d[i].k, d[i].v))]
    \o SelectSeq(other, LAMBDA p : ~ Has(d, p.k))

\* list(d.keys())
Keys(d) == [i \in 1 .. Len(d) |-> d[i].k]

\* --- the texts the scripts use --------------------------------------
K_id == <<"i", "d">>
K_name == <<"n", "a", "m", "e">>
K_value == <<"v", "a", "l", "u", "e">>
K_raw == <<"r", "a", "w">>
K_attribute_id == <<"a", "t", "t", "r", "i", "b", "u", "t", "e", "_", "i", "d">>
K_attribute_name == <<"a", "t", "t", "r", "i", "b", "u", "t", "e", "_", "n", "a", "m", "e">>
K_attribute_value == <<"a", "t", "t", "r", "i", "b", "u", "t", "e", "_", "v", "a", "l", "u", "e">>
K_address == <<"a", "d", "d", "r", "e", "s", "s">>
K_attribute == <<"a", "t", "t", "r", "i", "b", "u", "t", "e">>
K_address_count == <<"a", "d", "d", "r", "e", "s", "s", "_", "c", "o", "u", "n", "t">>
K_addresses == <<"a", "d", "d", "r", "e", "s", "s", "e", "s">>
K_attribute_count == <<"a", "t", "t", "r", "i", "b", "u", "t", "e", "_", "c", "o", "u", "n", "t">>
K_attributes == <<"a", "t", "t", "r", "i", "b", "u", "t", "e", "s">>
K_attribute_values == <<"a", "t", "t", "r", "i", "b", "u", "t", "e", "_", "v", "a", "l", "u", "e", "s">>
K_products_json == <<"p", "r", "o", "d", "u", "c", "t", "s", "_", "j", "s", "o", "n">>

\* --- orders.py normalize_row, catalog.py normalize_product -----------
\* out[k] = json.dumps(v, separators=(",", ":")) if isinstance(v, (dict,
\* list)) else v, for k, v in obj.items()
normalize_row(obj) ==
    [i \in 1 .. Len(obj) |->
       KV(obj[i].k, IF IsNested(obj[i].v) THEN Str(Dumps(obj[i].v))
                    ELSE obj[i].v)]

normalize_product(product) ==
    [i \in 1 .. Len(product) |->
       KV(product[i].k, IF IsNested(product[i].v) THEN Str(Dumps(product[i].v))
                        ELSE product[i].v)]

\* --- customers.py normalization --------------------------------------
MAX_ADDRESSES == 50
MAX_ATTRIBUTES == 50

BACK_COLUMNS_ORDER ==
    <<K_address_count, K_addresses, K_attribute_count, K_attributes,
      K_attribute_values>>

\* f"{prefix}{i+1}_{k}", i being the 0-based index
SplitColumn(prefix, i, k) == prefix \o IntToText(i + 1) \o <<"_">> \o k

\* The inner loop of split_list_of_dicts over the pairs of items[i].
RECURSIVE SplitItem(_, _, _, _)
SplitItem(out, prefix, i, pairs) ==
    IF Evaluated(out) /\ pairs = <<>> THEN out
    ELSE SplitItem(Put(out, SplitColumn(prefix, i, pairs[1].k),
                       IF IsNested(pairs[1].v) THEN json_cell(pairs[1].v)
                       ELSE pairs[1].v),
                   prefix, i, Tail(pairs))

\* The outer loop of split_list_of_dicts from index i on (0-based).
RECURSIVE SplitFrom(_, _, _, _, _)
SplitFrom(out, prefix, item_list, i, max_items) ==
    IF Evaluated(out) /\ i >= Min(Len(item_list), max_items) THEN out
    ELSE IF item_list[i + 1].t # "dict"
    THEN SplitFrom(out, prefix, item_list, i + 1, max_items)
    ELSE SplitFrom(SplitItem(out, prefix, i, item_list[i + 1].v),
                   prefix, item_list, i + 1, max_items)

split_list_of_dicts(prefix, item_list, max_items) ==
    SplitFrom(<<>>, prefix, item_list, 0, max_items)

\* attr_id_to_name.get(int(aid)), attr_id_to_name being a function on ids
NameOf(attr_id_to_name, aid) ==
    IF aid.t = "int" /\ aid.v[1] \in DOMAIN attr_id_to_name
    THEN Str(attr_id_to_name[aid.v[1]])
    ELSE None

\* The body of the loop of canonicalize_attribute_items for a dict `it`.
CanonItem(it, attr_id_to_name) ==
    LET aid0 == Get(it.v, K_attribute_id)
        aid  == IF aid0 = None THEN Get(it.v, K_id) ELSE aid0
        nm0  == Get(it.v, K_name)
        name == IF nm0 = None /\ aid # None
                THEN NameOf(attr_id_to_name, aid) ELSE nm0
        val0 == Get(it.v, K_attribute_value)
        val  == IF val0 = None THEN Get(it.v, K_value) ELSE val0
    IN  Dict(<<KV(K_attribute_id, aid), KV(K_attribute_name, name),
               KV(K_value, val), KV(K_raw, it)>>)

RECURSIVE canonicalize_attribute_items(_, _)
canonicalize_attribute_items(item_list, attr_id_to_name) ==
    IF item_list = <<>> THEN <<>>
    ELSE (IF item_list[1].t # "dict" THEN <<>>
          ELSE <<CanonItem(item_list[1], attr_id_to_name)>>)
         \o canonicalize_attribute_items(Tail(item_list), attr_id_to_name)

\* The loop of split_attributes from index i on (0-based).
RECURSIVE SplitAttrFrom(_, _, _, _)
SplitAttrFrom(out, canon, i, max_items) ==
    IF Evaluated(out) /\ i >= Min(Len(canon), max_items) THEN out
    ELSE LET a  == canon[i + 1].v
             o1 == Put(out, SplitColumn(K_attribute, i, K_id),
                       Get(a, K_attribute_id))
             o2 == Put(o1, SplitColumn(K_attribute, i, K_name),
                       Get(a, K_attribute_name))
             o3 == Put(o2, SplitColumn(K_attribute, i, K_value),
                       Get(a, K_value))
             o4 == Put(o3, SplitColumn(K_attribute, i, K_raw),
                       json_cell(Get(a, K_raw)))
         IN  SplitAttrFrom(o4, canon, i + 1, max_items)

split_attributes(item_list, attr_id_to_name, max_items) ==
    SplitAttrFrom(<<>>, canonicalize_attribute_items(item_list, attr_id_to_name),
                  0, max_items)

\* The pairs of customer whose key is not deferred, nested values as JSON.
TopLevelCells(kept) ==
    Table([i \in DOMAIN kept |->
              KV(kept[i].k, IF IsNested(kept[i].v) THEN json_cell(kept[i].v)
                            ELSE kept[i].v)])

TopLevel(customer) ==
    TopLevelCells(SelectSeq(customer, LAMBDA p :
        p.k \notin {K_addresses, K_attributes, K_attribute_values}))

\* Bug variant: the fetched attribute_values win over the inline list.
AttrSource_FetchedFirst(attributes, attribute_values) ==
    IF attribute_values.t = "list" /\ Truthy(attribute_values)
    THEN attribute_values ELSE attributes

\* `attributes if isinstance(attributes, list) and attributes else
\* attribute_values`
AttrSource(attributes, attribute_values) ==
    IF attributes.t = "list" /\ Truthy(attributes)
    THEN attributes ELSE attribute_values

normalize_customer_row(customer, attr_id_to_name) ==
    LET addresses        == Or(Get(customer, K_addresses), List(<<>>))
        attributes       == Or(Get(customer, K_attributes), List(<<>>))
        attribute_values == Or(Get(customer, K_attribute_values), List(<<>>))
        out1 == TopLevel(customer)
        out2 == IF addresses.t = "list" /\ Truthy(addresses)
                THEN Update(out1, split_list_of_dicts(K_address, addresses.v,
                                                      MAX_ADDRESSES))
                ELSE out1
        attr_source == AttrSource(attributes, attribute_values)
        out3 == IF attr_source.t = "list" /\ Truthy(attr_source)
                THEN Update(out2, split_attributes(attr_source.v,
                                                   attr_id_to_name,
                                                   MAX_ATTRIBUTES))
                ELSE out2
        out4 == IF Has(customer, K_addresses)
                THEN Put(out3, K_addresses, json_cell(addresses)) ELSE out3
        out5 == IF Has(customer, K_attributes)
                THEN Put(out4, K_attributes, json_cell(attributes)) ELSE out4
    IN  IF Has(customer, K_attribute_values)
        THEN Put(out5, K_attribute_values, json_cell(attribute_values))
        ELSE out5

\* --- customers.py column ordering ------------------------------------
\* k.startswith(prefix)
HasPrefix(k, prefix) ==
    Len(k) >= Len(prefix) /\ SubSeq(k, 1, Len(prefix)) = prefix

\* The length of the run of digits of k that starts at position from.
RECURSIVE DigitRun(_, _)
DigitRun(k, from) ==
    IF from > Len(k) \/ ~ IsDigitChar(k[from]) THEN 0
    ELSE 1 + DigitRun(k, from + 1)

\* re.match(r"^<prefix>\d+_", k)
IsSplitKey(k, prefix) ==
    /\ HasPrefix(k, prefix)
    /\ LET n == DigitRun(k, Len(prefix) + 1) IN
       /\ n >= 1
       /\ Len(k) >= Len(prefix) + n + 1
       /\ k[Len(prefix) + n + 1] = "_"

\* pat.match(k) for pat = ^<kind_prefix>(\d+)_(.+)$ : the groups, if any
PatMatch(k, kind_prefix) ==
    LET n == DigitRun(k, Len(kind_prefix) + 1) IN
    IF IsSplitKey(k, kind_prefix) /\ Len(k) > Len(kind_prefix) + n + 1
    THEN <<[index |-> SubSeq(k, Len(kind_prefix) + 1, Len(kind_prefix) + n),
            field |-> SubSeq(k, Len(kind_prefix) + n + 2, Len(k))]>>
    ELSE <<>>

\* Bug variant: the index is compared as text, not as a number.
key_fn_Lexical(k, kind_prefix) == [n |-> 0, s |-> k]

\* key_fn(k) of sort_split_keys
key_fn(k, kind_prefix) ==
    LET m == PatMatch(k, kind_prefix) IN
    IF m = <<>> THEN [n |-> 10 ^ 9, s |-> k]
    ELSE [n |-> TextToInt(m[1].index), s |-> m[1].field]

\* a <= b on the tuples key_fn returns
KeyLeq(a, b) == a.n < b.n \/ (a.n = b.n /\ ~ TextLess(b.s, a.s))

\* sorted(keys, key=key_fn) is a stable sort: a key comes after the keys
\* with a smaller key_fn tuple and after the earlier keys with the same one.
\* kf[i] is the key_fn tuple of the i-th key.
Before(kf, j, i) == IF kf[j] = kf[i] THEN j < i ELSE KeyLeq(kf[j], kf[i])

\* The position of each key in the sorted list.
Ranks(kf) ==
    Table([i \in DOMAIN kf |->
             Cardinality({ j \in DOMAIN kf : Before(kf, j, i) }) + 1])

Arranged(keys, rank) ==
    [p \in DOMAIN keys |-> keys[CHOOSE i \in DOMAIN keys : rank[i] = p]]

sort_split_keys(keys, kind_prefix) ==
    Arranged(keys,
             Ranks(Table([i \in DOMAIN keys |-> key_fn(keys[i], kind_prefix)])))

\* k in keys
Member(k, keys) == \E i \in 1 .. Len(keys) : keys[i] = k

\* The keys of a row (distinct, `more`) that are not in seen, appended to
\* seen in their order.
AddUnseen(seen, more) == seen \o SelectSeq(more, LAMBDA k : ~ Member(k, seen))

\* The keys of the rows in first-seen order.
RECURSIVE FirstSeen(_, _)
FirstSeen(seen, rs) ==
    IF rs = <<>> THEN seen
    ELSE FirstSeen(AddUnseen(seen, Keys(rs[1])), Tail(rs))

\* Bug variant: the back columns are not put in the list.
FinalColumns_NoBack(normal_cols, addr_sorted, attr_sorted, back_cols) ==
    normal_cols \o addr_sorted \o attr_sorted

\* Bug variant: the back columns are put first.
FinalColumns_BackFirst(normal_cols, addr_sorted, attr_sorted, back_cols) ==
    back_cols \o normal_cols \o addr_sorted \o attr_sorted

\* final = normal_cols + addr_split_sorted + attr_split_sorted + back_cols
FinalColumns(normal_cols, addr_sorted, attr_sorted, back_cols) ==
    normal_cols \o addr_sorted \o attr_sorted \o back_cols

\* leftovers = [k for k in all_keys_in_order if k not in final_set]
Leftovers(all_keys_in_order, final) ==
    SelectSeq(all_keys_in_order, LAMBDA k : ~ Member(k, final))

\* return final + leftovers
WithLeftovers(all_keys_in_order, final) ==
    final \o Leftovers(all_keys_in_order, final)

\* `final`, from the keys in first-seen order and the split keys among them
FinalOf(all_keys_in_order, addr_split, attr_split) ==
    FinalColumns(SelectSeq(all_keys_in_order,
                           LAMBDA k : /\ ~ Member(k, BACK_COLUMNS_ORDER)
                                      /\ ~ Member(k, addr_split)
                                      /\ ~ Member(k, attr_split)),
                 sort_split_keys(addr_split, K_address),
                 sort_split_keys(attr_split, K_attribute),
                 SelectSeq(BACK_COLUMNS_ORDER,
                           LAMBDA k : Member(k, all_keys_in_order)))

\* The column list from the keys in first-seen order and the split keys
\* among them.
OrderedColumns(all_keys_in_order, addr_split, attr_split) ==
    WithLeftovers(all_keys_in_order,
                  FinalOf(all_keys_in_order, addr_split, attr_split))

\* The column list from the keys in first-seen order.
ColumnsOf(all_keys_in_order) ==
    OrderedColumns(all_keys_in_order,
                   SelectSeq(all_keys_in_order,
                             LAMBDA k : IsSplitKey(k, K_address)),
                   SelectSeq(all_keys_in_order,
                             LAMBDA k : IsSplitKey(k, K_attribute)))

\* rows[::-1]
Reversed(rs) == [i \in 1 .. Len(rs) |-> rs[Len(rs) + 1 - i]]

\* Bug variant: the keys are collected from the last row to the first.
build_fieldnames_RowsReversed(rs) == ColumnsOf(FirstSeen(<<>>, Reversed(rs)))

\* customers.py build_fieldnames(rows)
build_fieldnames(rs) == ColumnsOf(FirstSeen(<<>>, rs))

\* --- the writers -----------------------------------------------------
\* What the csv writer puts in a cell: None as the empty text, a str as it
\* is, anything else by str().
CellText(v) ==
    CASE v.t = "none" -> <<>>
      [] v.t = "str"  -> v.v
      [] v.t = "int"  -> IntToText(v.v[1])
      [] OTHER        -> Dumps(v)

\* Bug variant: a column the row lacks gets no cell.
DictToList_SkipAbsent(fields, row) ==
    LET present == SelectSeq(fields, LAMBDA k : Has(row, k)) IN
    [ok |-> TRUE,
     cells |-> [j \in 1 .. Len(present) |-> CellText(Get(row, present[j]))]]

\* csv.DictWriter._dict_to_list with restval = "" and extrasaction =
\* "raise": ValueError for a key that is no field, else one cell per field.
DictToList(fields, row) ==
    IF \E i \in 1 .. Len(row) : ~ Member(row[i].k, fields)
    THEN [ok |-> FALSE, cells |-> <<>>]
    ELSE [ok |-> TRUE,
          cells |-> [j \in 1 .. Len(fields) |->
                       CellText(GetOr(row, fields[j], Str(<<>>)))]]

\* customers.py: writer.writerow({k: row.get(k, "") for k in fieldnames})
CustomerLine(fields, row) ==
    DictToList(fields,
               [j \in 1 .. Len(fields) |->
                  KV(fields[j], GetOr(row, fields[j], Str(<<>>)))])

\* orders.py write_csv: r["products_json"] = "[]" for a row without it
WithProductsJson(r) ==
    IF Has(r, K_products_json) THEN r
    ELSE Put(r, K_products_json, Str(<<"[", "]">>))

\* orders.py: key=lambda r: int(r.get("id") or 0)
IdKey(r) == Or(Get(r, K_id), Num(0)).v[1]

\* orders.py: rows.sort(key=...), a stable sort
RECURSIVE InsertById(_, _)
InsertById(sorted, r) ==
    IF sorted = <<>> THEN <<r>>
    ELSE IF IdKey(sorted[Len(sorted)]) <= IdKey(r)
    THEN Append(sorted, r)
    ELSE Append(InsertById(SubSeq(sorted, 1, Len(sorted) - 1), r),
                sorted[Len(sorted)])

RECURSIVE SortById(_)
SortById(rs) ==
    IF rs = <<>> THEN <<>>
    ELSE InsertById(SortById(SubSeq(rs, 1, Len(rs) - 1)), rs[Len(rs)])

\* --- what the upstream sends -------------------------------------------
A_zip == Dict(<<KV(<<"z", "i", "p">>, Str(<<"z">>))>>)

A_city == Dict(<<KV(<<"c", "i", "t", "y">>, Str(<<"c">>))>>)

\* An inline attribute of a customer, and two attribute-values records.
I_tier == Dict(<<KV(K_id, Num(1)), KV(K_value, Str(<<"x">>))>>)

F_tier == Dict(<<KV(K_attribute_id, Num(1)), KV(K_attribute_value, Str(<<"x">>))>>)

F_color == Dict(<<KV(K_attribute_id, Num(2)), KV(K_attribute_value, Str(<<"y">>))>>)

\* A customer of a page with what the bulk fetches brought for its id:
\* addr and attr are <<>> when the id is not in addr_map / attr_map.
Entity(c, addr, attr) == [c |-> c, addr |-> addr, attr |-> attr]

CustomerEntities ==
    { Entity(<<KV(K_id, Num(1)), KV(K_address_count, Num(2)),
               KV(K_addresses, List(<<A_zip, A_city>>))>>, <<>>, <<>>),
      Entity(<<KV(K_id, Num(2)), KV(<<"e", "m", "a", "i", "l">>, Str(<<"e">>)),
               KV(K_address_count, Num(1)), KV(K_addresses, List(<<A_city>>)),
               KV(K_attribute_count, Num(1)),
               KV(K_attributes, List(<<I_tier>>))>>, <<>>, <<>>),
      Entity(<<KV(<<"e", "m", "a", "i", "l">>, Str(<<"e">>)), KV(K_id, Num(3)),
               KV(K_address_count, Num(12)),
               KV(K_addresses, List(Repeat(A_city, 12)))>>, <<>>, <<>>),
      Entity(<<KV(K_id, Num(4)), KV(K_attribute_count, Num(2)),
               KV(K_attributes, List(<<I_tier>>))>>,
             <<>>, <<List(<<F_tier, F_color>>)>>),
      Entity(<<KV(K_id, Num(4)), KV(K_attribute_count, Num(2)),
               KV(K_attributes, List(<<I_tier>>))>>, <<>>, <<>>),
      Entity(<<KV(K_id, Num(5)), KV(K_attribute_count, Num(1)),
               KV(K_attributes, List(<<>>))>>, <<>>, <<List(<<F_color>>)>>),
      Entity(<<KV(K_id, Num(6)), KV(K_address_count, Num(0)),
               KV(K_addresses, List(<<>>)), KV(K_attribute_count, Num(0)),
               KV(K_attributes, List(<<>>))>>, <<>>, <<>>),
      Entity(<<KV(K_id, Num(7)),
               KV(<<"c", "h", "a", "n", "n", "e", "l", "_", "i", "d", "s">>, List(<<Num(1)>>))>>, <<>>, <<>>),
      Entity(<<KV(K_id, Num(8)), KV(K_address_count, Num(2)),
               KV(K_addresses, List(<<A_city>>))>>,
             <<List(<<A_city, A_zip>>)>>, <<>>),
      Entity(<<KV(<<"e", "m", "a", "i", "l">>, Str(<<"f">>)), KV(K_id, Num(9))>>,
             <<>>, <<>>),
      Entity(<<KV(K_id, Num(10)), KV(K_address_count, Num(3)),
               KV(K_addresses, List(<<A_zip, Str(<<"x">>), A_city>>)),
               KV(K_attribute_count, Num(2)),
               KV(K_attributes, List(<<Str(<<"x">>), I_tier>>))>>, <<>>, <<>>) }

\* Customers with one sub-entity more than the split columns take.
CappedEntities ==
    { Entity(<<KV(K_id, Num(11)), KV(K_address_count, Num(MAX_ADDRESSES + 1)),
               KV(K_addresses, List(Repeat(A_city, MAX_ADDRESSES + 1)))>>,
             <<>>, <<>>),
      Entity(<<KV(K_id, Num(12)), KV(K_attribute_count, Num(MAX_ATTRIBUTES + 1)),
               KV(K_attributes, List(Repeat(I_tier, MAX_ATTRIBUTES + 1)))>>,
             <<>>, <<>>) }

\* An order with the products its product fetch returns.
OrderEntities ==
    { Entity(<<KV(K_id, Num(2)), KV(<<"s", "t", "a", "t", "u", "s">>, Str(<<"s">>))>>,
             <<>>, <<List(<<Dict(<<KV(K_name, Str(<<"p">>))>>)>>)>>),
      Entity(<<KV(K_id, Num(1)), KV(<<"b", "i", "l", "l", "i", "n", "g", "_", "a", "d", "d", "r", "e", "s", "s">>, A_city)>>,
             <<>>, <<List(<<>>)>>),
      Entity(<<KV(<<"s", "t", "a", "t", "u", "s">>, Str(<<"s">>)), KV(K_id, Num(1)),
               KV(<<"t", "o", "t", "a", "l">>, Num(5))>>,
             <<>>, <<List(<<Dict(<<KV(K_name, Str(<<"p">>))>>)>>)>>) }

ProductEntities ==
    { Entity(<<KV(K_id, Num(1)), KV(K_name, Str(<<"n">>))>>, <<>>, <<>>),
      Entity(<<KV(K_id, Num(2)), KV(K_name, Str(<<"n">>)),
               KV(<<"v", "a", "r", "i", "a", "n", "t", "s">>, List(<<Dict(<<KV(<<"s", "k", "u">>, Str(<<"k">>))>>)>>))>>,
             <<>>, <<>>),
      Entity(<<KV(K_name, Str(<<"n">>)), KV(K_id, Num(3)),
               KV(<<"b", "r", "a", "n", "d", "_", "i", "d">>, None)>>, <<>>, <<>>) }

\* The sequences of at most MaxRows elements of S.
UpTo(S) == UNION { [1 .. n -> S] : n \in 0 .. MaxRows }

\* The customers the second loop of fetch_all_customers_with_subresources
\* goes through in one run.
CustomerRecords ==
    UpTo(CustomerEntities) \cup { <<e>> : e \in CappedEntities }

\* What fetch_attribute_definitions returned: id -> name ({} after a 403).
AttrDefinitions == { <<>>, <<<<"t", "i", "e", "r">>>> }

\* customers.py: c["addresses"] = addr_map[cid] and c["attribute_values"] =
\* attr_map[cid] for a customer whose id is in the mapping.
MergeCustomer(e) ==
    LET c1 == IF e.addr # <<>> THEN Put(e.c, K_addresses, e.addr[1]) ELSE e.c
    IN  IF e.attr # <<>> THEN Put(c1, K_attribute_values, e.attr[1]) ELSE c1

\* worker(order): normalize_row(order) plus products_json
OrderRow(e) ==
    Put(normalize_row(e.c), K_products_json, Str(Dumps(e.attr[1])))

CsvInit ==
    /\ FetchIdle
    /\ RunStart("none", "idle")
    /\ upstream = NoUpstream
    /\ FanIdle
    /\ BulkIdle
    /\ csv_script \in {"customers", "orders", "catalog"}
    /\ csv_pc = "collect"
    /\ records \in CASE csv_script = "customers" -> CustomerRecords
                       [] csv_script = "orders" -> UpTo(OrderEntities)
                       [] OTHER -> UpTo(ProductEntities)
    /\ attr_defs \in IF csv_script = "customers" THEN AttrDefinitions
                     ELSE {<<>>}
    /\ csv_i = 0
    /\ flat = <<>>
    /\ fieldnames = <<>>
    /\ lines = <<>>
    /\ csv_error = "none"

\* customers.py: one iteration of the second loop over the customers of a
\* page (merge, normalize_customer_row, rows.append), or the return of
\* fetch_all_customers_with_subresources.
NormalizeCustomer ==
    /\ csv_script = "customers"
    /\ csv_pc = "collect"
    /\ IF csv_i = Len(records)
       THEN /\ csv_pc' = "write_csv"
            /\ UNCHANGED <<csv_i, flat>>
       ELSE /\ csv_i' = csv_i + 1
            /\ csv_pc' = csv_pc
            /\ flat' = IF Get(records[csv_i + 1].c, K_id) = None
                       THEN flat
                       ELSE Append(flat,
                                   normalize_customer_row(
                                       MergeCustomer(records[csv_i + 1]),
                                       attr_defs))
    /\ UNCHANGED <<fetchVars, runVars, fanVars, bulkVars, csv_script, records,
                   attr_defs, fieldnames, lines, csv_error>>

\* orders.py: the row of one more order (worker), or the sort and return
\* of build_rows_one_per_order.
NormalizeOrder ==
    /\ csv_script = "orders"
    /\ csv_pc = "collect"
    /\ IF csv_i = Len(records)
       THEN /\ csv_pc' = "write_csv"
            /\ flat' = SortById(flat)
            /\ csv_i' = csv_i
       ELSE /\ csv_i' = csv_i + 1
            /\ csv_pc' = csv_pc
            /\ flat' = Append(flat, OrderRow(records[csv_i + 1]))
    /\ UNCHANGED <<fetchVars, runVars, fanVars, bulkVars, csv_script, records,
                   attr_defs, fieldnames, lines, csv_error>>

\* catalog.py: all_products.append(normalize_product(product)), or the
\* return of fetch_all_products.
NormalizeProduct ==
    /\ csv_script = "catalog"
    /\ csv_pc = "collect"
    /\ IF csv_i = Len(records)
       THEN /\ csv_pc' = "write_csv"
            /\ UNCHANGED <<csv_i, flat>>
       ELSE /\ csv_i' = csv_i + 1
            /\ csv_pc' = csv_pc
            /\ flat' = Append(flat, normalize_product(records[csv_i + 1].c))
    /\ UNCHANGED <<fetchVars, runVars, fanVars, bulkVars, csv_script, records,
                   attr_defs, fieldnames, lines, csv_error>>

\* The head of a writer: nothing is written for no rows, else the column
\* list is computed and the header line written.
WriteHeader(s, rs, fields) ==
    /\ csv_script = s
    /\ csv_pc = "write_csv"
    /\ IF flat = <<>>
       THEN /\ csv_pc' = "done"
            /\ UNCHANGED <<flat, fieldnames>>
       ELSE /\ csv_pc' = "rows"
            /\ flat' = rs
            /\ fieldnames' = fields
    /\ UNCHANGED <<fetchVars, runVars, fanVars, bulkVars, csv_script, records,
                   attr_defs, csv_i, lines, csv_error>>

\* One more row written through csv.DictWriter.
WriteRow(s, line) ==
    /\ csv_script = s
    /\ csv_pc = "rows"
    /\ IF line.ok
       THEN /\ lines' = Append(lines, line.cells)
            /\ csv_pc' = IF Len(lines) + 1 = Len(flat) THEN "done" ELSE csv_pc
            /\ csv_error' = csv_error
       ELSE /\ csv_pc' = "failed"
            /\ csv_error' = "ValueError"
            /\ lines' = lines
    /\ UNCHANGED <<fetchVars, runVars, fanVars, bulkVars, csv_script, records,
                   attr_defs, csv_i, flat, fieldnames>>

\* customers.py write_csv
CustomersHeader == WriteHeader("customers", flat, build_fieldnames(flat))

CustomersRow ==
    WriteRow("customers", CustomerLine(fieldnames, flat[Len(lines) + 1]))

\* orders.py write_csv
OrdersHeader ==
    LET rs == [i \in 1 .. Len(flat) |-> WithProductsJson(flat[i])]
    IN  WriteHeader("orders", rs, FirstSeen(<<>>, rs))

OrdersRow == WriteRow("orders", DictToList(fieldnames, flat[Len(lines) + 1]))

\* catalog.py write_products_to_csv
ProductsHeader == WriteHeader("catalog", flat, FirstSeen(<<>>, flat))

ProductsRow == WriteRow("catalog", DictToList(fieldnames, flat[Len(lines) + 1]))

CsvNext ==
    \/ NormalizeCustomer
    \/ NormalizeOrder
    \/ NormalizeProduct
    \/ CustomersHeader
    \/ CustomersRow
    \/ OrdersHeader
    \/ OrdersRow
    \/ ProductsHeader
    \/ ProductsRow

SpecCsv == CsvInit /\ [][CsvNext]_vars

\* ---------------------------------------------------------------------
\* SpecBulk: fetch_addresses_for_customers and
\* fetch_attribute_values_for_customers, one id chunk per step
\* ---------------------------------------------------------------------
K_customer_id == <<"c", "u", "s", "t", "o", "m", "e", "r", "_", "i", "d">>

\* Bug variant: only the full chunks, the ids after the last full chunk are
\* left out.
chunked_ints_FullOnly(values, n) ==
    [c \in 1 .. (Len(values) \div n) |-> SubSeq(values, (c - 1) * n + 1, c * n)]

\* customers.py chunked_ints: values[i : i + n] for i in range(0, len, n)
chunked_ints(values, n) ==
    [c \in 1 .. ((Len(values) + n - 1) \div n) |->
       SubSeq(values, (c - 1) * n + 1, Min(c * n, Len(values)))]

\* grouped.setdefault(cid, []).append(item), grouped being a function on
\* the ids it holds
SetDefaultAppend(g, cid, item) ==
    [c \in DOMAIN g \cup {cid} |->
       IF c = cid THEN Append(IF c \in DOMAIN g THEN g[c] ELSE <<>>, item)
       ELSE g[c]]

\* The loop of group_by_customer_id.
RECURSIVE GroupFrom(_, _, _)
GroupFrom(g, item_list, key) ==
    IF item_list = <<>> THEN g
    ELSE LET cid == Get(item_list[1].v, key)
         IN  GroupFrom(IF cid = None THEN g
                       ELSE SetDefaultAppend(g, cid.v[1], item_list[1]),
                       Tail(item_list), key)

\* customers.py group_by_customer_id
group_by_customer_id(item_list, key) == GroupFrom(<<>>, item_list, key)

\* The id lists a page may flag, in the order of its customers (not sorted):
\* none, one id, one full chunk, one id more, MaxFlagged ids and one id
\* more than two full chunks.
FlaggedIds ==
    { [i \in 1 .. n |-> n + 1 - i] :
        n \in {0, 1, ID_IN_CHUNK, ID_IN_CHUNK + 1, MaxFlagged,
               2 * ID_IN_CHUNK + 1} }

\* A sub-record of the customer cid.
SubRecord(cid, rest) == Dict(<<KV(K_customer_id, cid)>> \o rest.v)

\* The sub-records the upstream may send for a chunk: of its first and of
\* its last id, with a customer_id of null and without customer_id.
SubRecords(id_chunk) ==
    { SubRecord(Num(id_chunk[1]), A_zip), SubRecord(Num(id_chunk[1]), A_city),
      SubRecord(Num(id_chunk[Len(id_chunk)]), A_zip),
      SubRecord(None, A_zip), A_city }

\* What fetch_paginated may return for a chunk.
BulkAnswers(id_chunk) == UpTo(SubRecords(id_chunk))

\* The exceptions fetch_paginated may raise.
BulkErrors ==
    { [NoError EXCEPT !.kind = "HTTPError", !.status = st] :
        st \in {403, 404, 500} }
    \cup { [NoError EXCEPT !.kind = "Timeout"] }

BulkInit ==
    /\ FetchIdle
    /\ RunStart("none", "idle")
    /\ upstream = NoUpstream
    /\ FanIdle
    /\ CsvIdle
    /\ endpoint \in {"addresses", "attribute-values"}
    /\ bulk_pc = "chunks"
    /\ customer_ids \in FlaggedIds
    /\ id_chunks = <<>>
    /\ bulk_rows = <<>>
    /\ bulk_map = <<>>
    /\ bulk_error = NoError

\* One iteration of `for id_chunk in chunked_ints(customer_ids, ID_IN_CHUNK)`:
\* the fetch_paginated call with the chunk as filter returns its rows.
BulkChunk ==
    /\ bulk_pc = "chunks"
    /\ Len(id_chunks) < Len(chunked_ints(customer_ids, ID_IN_CHUNK))
    /\ LET id_chunk == chunked_ints(customer_ids, ID_IN_CHUNK)[Len(id_chunks) + 1]
       IN  /\ id_chunks' = Append(id_chunks, id_chunk)
           /\ \E got \in BulkAnswers(id_chunk) : bulk_rows' = bulk_rows \o got
    /\ UNCHANGED <<fetchVars, runVars, fanVars, csvVars, endpoint, bulk_pc,
                   customer_ids, bulk_map, bulk_error>>

\* The fetch_paginated call of the next chunk raises: a 403 or 404 of the
\* attribute-values endpoint gives the warning and the empty mapping, any
\* other exception leaves the function.
BulkChunkRaises ==
    /\ bulk_pc = "chunks"
    /\ Len(id_chunks) < Len(chunked_ints(customer_ids, ID_IN_CHUNK))
    /\ id_chunks' = Append(id_chunks,
                           chunked_ints(customer_ids,
                                        ID_IN_CHUNK)[Len(id_chunks) + 1])
    /\ \E e \in BulkErrors :
         IF endpoint = "attribute-values" /\ Degrades(e)
         THEN /\ bulk_pc' = "degraded"
              /\ bulk_map' = <<>>
              /\ bulk_error' = bulk_error
         ELSE /\ bulk_pc' = "raised"
              /\ bulk_error' = e
              /\ bulk_map' = bulk_map
    /\ UNCHANGED <<fetchVars, runVars, fanVars, csvVars, endpoint,
                   customer_ids, bulk_rows>>

\* `if not customer_ids: return {}`, or the return after the last chunk:
\* group_by_customer_id(all_rows, key="customer_id").
BulkReturn ==
    /\ bulk_pc = "chunks"
    /\ Len(id_chunks) = Len(chunked_ints(customer_ids, ID_IN_CHUNK))
    /\ bulk_pc' = "returned"
    /\ bulk_map' = IF customer_ids = <<>> THEN <<>>
                   ELSE group_by_customer_id(bulk_rows, K_customer_id)
    /\ UNCHANGED <<fetchVars, runVars, fanVars, csvVars, endpoint,
                   customer_ids, id_chunks, bulk_rows, bulk_error>>

BulkNext ==
    \/ BulkChunk
    \/ BulkChunkRaises
    \/ BulkReturn

SpecBulk == BulkInit /\ [][BulkNext]_vars

\* =====================================================================
\* Claims about one logical fetch (checked under SpecFetch)
\* =====================================================================
IsException(o) == o.kind \in {"Timeout", "ConnectionError"}

\* The outcomes the running fetcher answers with another attempt.
Retried(o) ==
    IF fn = "request_with_backoff"
    THEN IsException(o) \/ o.status \in {429, 500, 502, 503, 504}
    ELSE o.status = 429

\* At most `budget` requests; the budget-th consecutive retried failure
\* raises the exhausted-retries error, and only it does.
WithinBudget(budget) ==
    /\ nreq <= budget
    /\ (lastAttempt.n = budget /\ Retried(lastAttempt.outcome))
          => (fpc = "raised" /\ ferror.exhausted)
    /\ (fpc = "raised" /\ ferror.exhausted) => nreq = budget

\* C1 as stated: one logical fetch never issues more than the configured
\* maximum of HTTP requests (MAX_RETRIES = 8 for request_with_backoff,
\* MAX_429_RETRIES = 20 for get_with_429_retry) and raises the
\* exhausted-retries error after exactly that many retryable failures.
C1_RequestsWithinMax ==
    WithinBudget(IF fn = "request_with_backoff" THEN MAX_RETRIES
                 ELSE MAX_429_RETRIES)

\* C1 amended: request_with_backoff issues at most MAX_RETRIES = 8
\* requests and raises after 8 consecutive retryable failures;
\* get_with_429_retry issues at most MAX_429_RETRIES + 1 = 21 requests (the
\* first one and 20 retries) and raises after 21 consecutive 429 responses.
\* A fetch that has raised issues no further request.
C1_RequestsWithinBudget ==
    WithinBudget(IF fn = "request_with_backoff" THEN MAX_RETRIES
                 ELSE MAX_429_RETRIES + 1)

C1_Witness ==
    /\ fn = "get_with_429_retry"
    /\ fpc = "raised"
    /\ ferror.exhausted
    /\ nreq = MAX_429_RETRIES + 1

\* C2: after a 429 with a numeric Retry-After of k seconds, the delay before
\* the next attempt is exactly k: no jitter, no cap, no exponential schedule.
C2_ExactRetryAfter ==
    ( /\ lastAttempt.ctl = "retry"
      /\ lastAttempt.outcome.status = 429
      /\ lastAttempt.outcome.retry_after.form \in {"int", "dec"} )
    => lastAttempt.sleep = <<lastAttempt.outcome.retry_after.ms>>

\* The exponential schedule of attempt a: min(2^(a-1), 60) seconds up to
\* min(1.25 * 2^(a-1), 60) seconds.
OnBackoffSchedule(sleep, a) ==
    /\ Len(sleep) = 1
    /\ Min(Seconds(2 ^ (a - 1)), Seconds(60)) <= sleep[1]
    /\ sleep[1] <= Min((Seconds(2 ^ (a - 1)) * 5) \div 4, Seconds(60))

RetriedOnSchedule ==
    /\ lastAttempt.ctl = "retry"
    /\ fpc = "running"
    /\ ferror = NoError
    /\ OnBackoffSchedule(lastAttempt.sleep, lastAttempt.n)

\* C3 as stated: in request_with_backoff every 5xx response and every
\* timeout or connection failure before the last attempt of the budget is
\* retried on the exponential schedule and not surfaced.
C3_Every5xxRetried ==
    ( /\ fn = "request_with_backoff"
      /\ lastAttempt.n \in 1 .. (MAX_RETRIES - 1)
      /\ \/ IsException(lastAttempt.outcome)
         \/ lastAttempt.outcome.status \in 500 .. 599 )
    => RetriedOnSchedule

\* C3 amended: in request_with_backoff every response with status 500, 502,
\* 503 or 504 and every timeout or connection failure before the last
\* attempt of the budget is retried on the exponential schedule and not
\* surfaced; any other 5xx status is raised on the attempt where it occurs.
C3_TransientRetried ==
    /\ ( /\ fn = "request_with_backoff"
         /\ lastAttempt.n \in 1 .. (MAX_RETRIES - 1)
         /\ \/ IsException(lastAttempt.outcome)
            \/ lastAttempt.outcome.status \in {500, 502, 503, 504} )
       => RetriedOnSchedule
    /\ ( /\ fn = "request_with_backoff"
         /\ lastAttempt.outcome.status \in (500 .. 599) \ {500, 502, 503, 504} )
       => ( /\ fpc = "raised"
            /\ lastAttempt.sleep = <<>>
            /\ ferror.kind = "HTTPError"
            /\ ferror.carries = lastAttempt.n )

C3_Witness ==
    /\ fn = "request_with_backoff"
    /\ lastAttempt.n = MAX_RETRIES - 1
    /\ lastAttempt.outcome.kind = "Timeout"
    /\ lastAttempt.ctl = "retry"
    /\ last_exc.attempt = MAX_RETRIES - 1

\* C5: a 4xx status other than 429 ends the logical fetch on the attempt
\* that received it: no sleep, no further request, and the error reaches the
\* caller (raised by request_with_backoff, handed back as the response by
\* get_with_429_retry), however many attempts were retried before.
C5_ClientErrorSurfaces ==
    ( /\ lastAttempt.outcome.kind = "response"
      /\ lastAttempt.outcome.status \in (400 .. 499) \ {429} )
    => /\ lastAttempt.sleep = <<>>
       /\ nreq = lastAttempt.n
       /\ ~ ENABLED (RwbAttempt \/ G429Attempt)
       /\ IF fn = "request_with_backoff"
          THEN /\ fpc = "raised"
               /\ ferror.kind = "HTTPError"
               /\ ferror.status = lastAttempt.outcome.status
               /\ ~ ferror.exhausted
          ELSE fpc = "returned" /\ ferror = NoError

C5_Witness ==
    /\ fn = "request_with_backoff"
    /\ lastAttempt.n = 3
    /\ lastAttempt.outcome.status = 404
    /\ fpc = "raised"

\* C6: when request_with_backoff runs out of attempts, the error it raises
\* carries the response or exception of the final attempt.
C6_CarriesFinalAttempt ==
    ( /\ fn = "request_with_backoff"
      /\ fpc = "raised"
      /\ ferror.exhausted )
    => ferror.carries = lastAttempt.n

\* =====================================================================
\* Claims about the exports (checked under Spec)
\* =====================================================================
RECURSIVE Sum(_)
Sum(seq) == IF seq = <<>> THEN 0 ELSE seq[1] + Sum(Tail(seq))

\* The page numbers 1, 2, ..., N, each once, in increasing order.
Consecutive(log) == \A i \in 1 .. Len(log) : log[i] = i

\* A retryable failure followed by a success, within every retry budget.
RetryableThenSuccess(seq) ==
    /\ Len(seq) = 2
    /\ seq[2] = Resp(200)
    /\ \/ IsException(seq[1])
       \/ seq[1].status = 429
       \/ seq[1].status \in 500 .. 599

\* C4: in every export, a retryable failure (429, 5xx, timeout, connection
\* failure) on a page or sub-resource request that is followed by a success
\* within the retry budget is not observed by the caller: the walker gets
\* the successful response and the run does not abort on it.
C4_RetryableAbsorbed ==
    RetryableThenSuccess(lastFetch.seq)
    => /\ lastFetch.status = 200
       /\ ~ lastFetch.raised
       /\ pc = "failed" => error = ShapeError

\* The order walk has ended normally (the run may have failed later on).
OrdersWalkOver ==
    \/ pc \in {"build_rows_one_per_order", "write_csv", "done"}
    \/ pc = "failed" /\ lastFetch.phase = "build_rows_one_per_order"

\* C7: fetch_all_orders requests the pages 1, 2, ..., N each once in
\* increasing order, goes on exactly after full pages (LIMIT items), stops
\* at the first short or empty page and requests no page after it.
C7_LengthInferenceWalk ==
    script = "orders" =>
      /\ Consecutive(reqLog)
      /\ \A i \in 1 .. (Len(walked) - 1) : walked[i] = LIMIT
      /\ OrdersWalkOver =>
           /\ Len(reqLog) = Len(walked)
           /\ Len(walked) >= 1
           /\ walked[Len(walked)] < LIMIT
      /\ pc = "fetch_all_orders" =>
           /\ Len(reqLog) = Len(walked)
           /\ page = Len(walked) + 1
           /\ \A i \in 1 .. Len(walked) : walked[i] = LIMIT
      /\ (pc = "failed" /\ lastFetch.phase = "fetch_all_orders") =>
           /\ reqLog[Len(reqLog)] = page
           /\ \A i \in 1 .. Len(walked) : walked[i] = LIMIT

C7_Witness ==
    /\ script = "orders"
    /\ pc = "build_rows_one_per_order"
    /\ reqLog = <<1, 2>>
    /\ walked = <<LIMIT, ShortPage>>

\* The response reports the end of the listing.
ReportsEnd(body) == body.n = 0 \/ body.current_page >= body.total_pages

\* C8, the walk over the export's own listing (fetch_all_products, the
\* customer page loop) when the listing carries meta.pagination.
MetaWalkOfExport ==
    (script \in {"catalog", "customers"} /\ upstream.meta) =>
      /\ Consecutive(reqLog)
      /\ Len(reqLog) <= upstream.total_pages
      /\ \A i \in 1 .. (Len(walked) - 1) : walked[i] > 0
      /\ pc \in {"write_csv", "done"} =>
           /\ Len(walked) = Len(reqLog)
           /\ ReportsEnd(cur)
           /\ Len(walked) = upstream.total_pages \/ walked[Len(walked)] = 0
           /\ script = "catalog" => rows = Sum(walked)
      /\ ( /\ pc \in {"fetch_all_products",
                      "fetch_all_customers_with_subresources"}
           /\ walked # <<>> ) =>
           /\ ~ ReportsEnd(cur)
           /\ page = cur.current_page + 1
           /\ Len(reqLog) = Len(walked)

\* C8, fetch_paginated on a listing that carries meta.pagination.
MetaWalkOfFetchPaginated ==
    /\ (lastWalk.phase # "none" /\ lastWalk.up.meta) =>
         /\ lastWalk.requests <= lastWalk.up.total_pages
         /\ ReportsEnd(lastWalk.last)
         /\ lastWalk.requests = lastWalk.last.current_page
         /\ \/ lastWalk.requests = lastWalk.up.total_pages
            \/ lastWalk.last.n = 0
         /\ lastWalk.out = (lastWalk.requests - 1) * LIMIT + lastWalk.last.n
    /\ (sub.page > 1 /\ sub.up.meta) =>
         /\ sub.page <= sub.up.total_pages
         /\ sub.out = (sub.page - 1) * LIMIT

C9_RowPerEntity ==
    pc \in {"write_csv", "done"} =>
      /\ rows = Sum(walked)
      /\ pc = "done" => written = Sum(walked)

\* C10: a 403 or 404 from the addresses or the attribute-values endpoint on
\* any chunk gives an empty mapping and a warning, and the run goes on.
C10_DegradedEnrichment ==
    ( /\ lastFetch.phase \in {"fetch_addresses_for_customers",
                              "fetch_attribute_values_for_customers"}
      /\ lastFetch.status \in {403, 404} )
    => /\ pc # "failed"
       /\ error = NoError
       /\ warnings > 0
       /\ IF lastFetch.phase = "fetch_addresses_for_customers"
          THEN addr_map = 0 ELSE attr_map = 0

\* =====================================================================
\* Claims about the fan-out (checked under SpecFanOut)
\* =====================================================================
RECURSIVE SeqToBag(_)
SeqToBag(seq) ==
    IF seq = <<>> THEN EmptyBag
    ELSE SetToBag({Head(seq)}) (+) SeqToBag(Tail(seq))

\* The orders in which the elements of a bag can come.
RECURSIVE Arrangements(_)
Arrangements(b) ==
    IF b = EmptyBag THEN {<<>>}
    ELSE UNION { { <<e>> \o a : a \in Arrangements(b (-) SetToBag({e})) } :
                 e \in BagToSet(b) }

\* What build_rows_one_per_order returns on os, over all completion orders.
PossibleRows(os) ==
    { SortRows([i \in 1 .. Len(a) |-> WorkerRow(a[i])]) :
        a \in Arrangements(SeqToBag(os)) }

SortedById(rs) ==
    \A i \in 1 .. (Len(rs) - 1) : SortKey(rs[i]) <= SortKey(rs[i + 1])

\* C11: the rows build_rows_one_per_order returns are sorted by order id and
\* are the same sequence for every completion order of the workers, orders
\* of equal id included.
C11_OrderIndependentRows ==
    fo_pc = "returned" =>
      /\ SortedById(fo_rows)
      /\ \A rs \in PossibleRows(orders) : rs = fo_rows

\* C12: once a call of worker(order) has ended in an exception, no product
\* fetch that has not started yet is started.
C12_NoStartAfterFatal == ~ lastStart.afterFatal

\* C20: at most MAX_WORKERS product requests are in flight at any moment;
\* every order gets one product fetch and no order gets two; every running
\* fetch counts its own requests only, within its own budget.
C20_BoundedFanOut ==
    /\ BagCardinality(inflight) <= MAX_WORKERS
    /\ started \sqsubseteq SeqToBag(orders)
    /\ BagCardinality(started)
         = BagCardinality(inflight) + BagCardinality(finished) + taken
    /\ fo_pc \in {"returned", "raised"} => started = SeqToBag(orders)
    /\ \A w \in BagToSet(inflight) :
         /\ w.attempt = w.nreq + 1
         /\ w.attempt <= MAX_RETRIES

C20_Witness ==
    /\ BagCardinality(inflight) = MAX_WORKERS
    /\ queue # <<>>
    /\ \E w \in BagToSet(inflight) : w.attempt = 2
    /\ \E w \in BagToSet(inflight) : w.attempt = 1

\* =====================================================================
\* Claims about the output file (checked under Spec)
\* =====================================================================
\* The collection of the export has come to its normal end.
CollectionOver ==
    IF script = "orders"
    THEN OrdersStop(cur) /\ rows = items
    ELSE MetaStop(cur, page) /\ sub = SubStart

\* C13: the output file is written only after the whole collection has
\* ended without a fatal error; a run that fails during collection never
\* reaches the write step and persists no row.
C13_NoPartialArtifact ==
    /\ pc = "failed" => (written = 0 /\ error # NoError)
    /\ pc \in {"write_csv", "done"} => (error = NoError /\ CollectionOver)
    /\ written > 0 => pc = "done"

C13_Witness ==
    /\ pc = "failed"
    /\ script = "customers"
    /\ lastFetch.phase = "fetch_attribute_values_for_customers"
    /\ rows > 0
    /\ written = 0

\* =====================================================================
\* Claims about flattening and the CSV layout (checked under SpecCsv)
\* =====================================================================
\* The flattening function of the export that runs.
Flatten(r) ==
    CASE csv_script = "customers" -> normalize_customer_row(r, attr_defs)
      [] csv_script = "orders"    -> normalize_row(r)
      [] OTHER                    -> normalize_product(r)

\* C14: flattening a flattened record gives the same record, the same keys
\* in the same order with the same values: a value that is text already is
\* not serialized again.  For normalize_product, normalize_row and
\* normalize_customer_row.
C14_FlattenIdempotent ==
    \A i \in 1 .. Len(flat) : Flatten(flat[i]) = flat[i]

\* The 1-based position of k in keys (0 when it is not there).
Pos(keys, k) ==
    IF Member(k, keys) THEN CHOOSE i \in 1 .. Len(keys) : keys[i] = k ELSE 0

\* The numeric index and the field name of a split column.
SplitIndex(k, prefix) == TextToInt(PatMatch(k, prefix)[1].index)

SplitField(k, prefix) == PatMatch(k, prefix)[1].field

\* Column a of a split group comes before column b of the same group.
SplitBefore(a, b, prefix) ==
    \/ SplitIndex(a, prefix) < SplitIndex(b, prefix)
    \/ /\ SplitIndex(a, prefix) = SplitIndex(b, prefix)
       /\ TextLess(SplitField(a, prefix), SplitField(b, prefix))

\* C15: in the column list of build_fieldnames the columns of one split
\* group are sorted by ascending numeric index and, within one index, by
\* field name, whatever the arrival order; every address column comes
\* before every attribute column.
C15_SplitColumnOrder ==
    csv_script = "customers" =>
      \A i, j \in 1 .. Len(fieldnames) :
        i < j =>
          /\ ( /\ IsSplitKey(fieldnames[i], K_address)
               /\ IsSplitKey(fieldnames[j], K_address) )
             => SplitBefore(fieldnames[i], fieldnames[j], K_address)
          /\ ( /\ IsSplitKey(fieldnames[i], K_attribute)
               /\ IsSplitKey(fieldnames[j], K_attribute) )
             => SplitBefore(fieldnames[i], fieldnames[j], K_attribute)
          /\ ~ ( /\ IsSplitKey(fieldnames[i], K_attribute)
                 /\ IsSplitKey(fieldnames[j], K_address) )

C15_Witness ==
    /\ csv_script = "customers"
    /\ csv_pc = "rows"
    /\ Pos(FirstSeen(<<>>, flat), <<"a", "d", "d", "r", "e", "s", "s", "1", "_", "z", "i", "p">>)
         < Pos(FirstSeen(<<>>, flat), <<"a", "d", "d", "r", "e", "s", "s", "2", "_", "c", "i", "t", "y">>)
    /\ Pos(FirstSeen(<<>>, flat), <<"a", "d", "d", "r", "e", "s", "s", "2", "_", "c", "i", "t", "y">>)
         < Pos(FirstSeen(<<>>, flat), <<"a", "d", "d", "r", "e", "s", "s", "1", "_", "c", "i", "t", "y">>)
    /\ \E i \in 1 .. Len(fieldnames) - 2 :
         SubSeq(fieldnames, i, i + 2)
           = << <<"a", "d", "d", "r", "e", "s", "s", "1", "_", "c", "i", "t", "y">>, <<"a", "d", "d", "r", "e", "s", "s", "1", "_", "z", "i", "p">>, <<"a", "d", "d", "r", "e", "s", "s", "2", "_", "c", "i", "t", "y">> >>

\* The partition of a column: 1 a normal column, 2 an address split
\* column, 3 an attribute split column, 4 a back column.
Partition(k) ==
    CASE Member(k, BACK_COLUMNS_ORDER) -> 4
      [] IsSplitKey(k, K_address)      -> 2
      [] IsSplitKey(k, K_attribute)    -> 3
      [] OTHER                         -> 1

\* C16: the column list of build_fieldnames is the normal columns in
\* first-seen order, then the address split columns, then the attribute
\* split columns, then the back columns that occur in some row, in their
\* declared order; every key of the rows is a column, once.
C16_ColumnLayout ==
    (csv_script = "customers" /\ csv_pc \in {"rows", "done"} /\ flat # <<>>) =>
      LET seen == FirstSeen(<<>>, flat) IN
      /\ \A i, j \in 1 .. Len(fieldnames) :
           i < j =>
             /\ fieldnames[i] # fieldnames[j]
             /\ Partition(fieldnames[i]) <= Partition(fieldnames[j])
             /\ ( Partition(fieldnames[i]) = 1 /\ Partition(fieldnames[j]) = 1 )
                => Pos(seen, fieldnames[i]) < Pos(seen, fieldnames[j])
             /\ ( Partition(fieldnames[i]) = 4 /\ Partition(fieldnames[j]) = 4 )
                => Pos(BACK_COLUMNS_ORDER, fieldnames[i])
                     < Pos(BACK_COLUMNS_ORDER, fieldnames[j])
      /\ { fieldnames[i] : i \in 1 .. Len(fieldnames) }
           = { seen[i] : i \in 1 .. Len(seen) }

C16_Witness ==
    /\ csv_script = "customers"
    /\ csv_pc = "rows"
    /\ Len(flat) = 2
    /\ \A p \in 1 .. 4 :
         \E i \in 1 .. Len(fieldnames) : Partition(fieldnames[i]) = p
    /\ Member(K_attribute_values, fieldnames)
    /\ \E k \in { fieldnames[i] : i \in 1 .. Len(fieldnames) } :
         Partition(k) = 1 /\ ~ Has(flat[1], k)

\* C17: every written line has one cell per column of the column list; the
\* cell of a column the row's record lacks is empty, and no writer raises.
C17_RowRendering ==
    /\ csv_error = "none"
    /\ csv_pc # "failed"
    /\ \A i \in 1 .. Len(lines) :
         /\ Len(lines[i]) = Len(fieldnames)
         /\ \A j \in 1 .. Len(fieldnames) :
              lines[i][j] = IF Has(flat[i], fieldnames[j])
                            THEN CellText(Get(flat[i], fieldnames[j]))
                            ELSE <<>>

C17_Witness ==
    /\ csv_script = "orders"
    /\ csv_pc = "done"
    /\ Len(lines) = 2
    /\ \E j \in 1 .. Len(fieldnames) : ~ Has(flat[2], fieldnames[j])

\* The attribute split columns of a flattened customer row.
AttributeColumns(r) == SelectSeq(r, LAMBDA p : IsSplitKey(p.k, K_attribute))

\* C18: the attribute split columns of a customer come from its inline
\* `attributes` list alone when that list is not empty, the fetched
\* `attribute_values` being there or not; from the fetched
\* `attribute_values` when the inline list is absent or empty.
C18_InlineAttributesPreferred ==
    csv_script = "customers" =>
      \A i \in 1 .. Len(flat) :
        LET c       == MergeCustomer(records[i])
            inline  == Or(Get(c, K_attributes), List(<<>>))
            fetched == Or(Get(c, K_attribute_values), List(<<>>))
        IN  AttributeColumns(flat[i])
              = split_attributes(IF inline.v # <<>> THEN inline.v
                                 ELSE fetched.v,
                                 attr_defs, MAX_ATTRIBUTES)

C18_Witness ==
    /\ csv_script = "customers"
    /\ \E i \in 1 .. Len(flat) :
         /\ records[i].attr # <<>>
         /\ Get(records[i].c, K_attributes) = List(<<I_tier>>)
         /\ Get(flat[i], <<"a", "t", "t", "r", "i", "b", "u", "t", "e", "1", "_", "v", "a", "l", "u", "e">>) = Str(<<"x">>)
         /\ ~ Has(flat[i], <<"a", "t", "t", "r", "i", "b", "u", "t", "e", "2", "_", "v", "a", "l", "u", "e">>)

\* =====================================================================
\* Termination of one logical fetch (checked under SpecFetchLive)
\* =====================================================================
\* C19: whatever the upstream answers to its requests (429 with or without
\* Retry-After, 5xx, timeout, connection failure, success, other 4xx),
\* every call of request_with_backoff and of get_with_429_retry ends:
\* it returns a response or raises.
C19_FetchTerminates == <>(fpc \in {"returned", "raised"})

C19_Witness ==
    /\ fn = "request_with_backoff"
    /\ fpc = "returned"
    /\ nreq = MAX_RETRIES
    /\ last_exc.kind = "Timeout"

\* ---------------------------------------------------------------------
\* The customer pipeline (specification Spec)
\* ---------------------------------------------------------------------
CustomersPhase == "fetch_all_customers_with_subresources"

AddressesPhase == "fetch_addresses_for_customers"

AttributesPhase == "fetch_attribute_values_for_customers"

\* The step ends the bulk fetch of phase ph: the fetch_paginated call of
\* its last chunk returns.
BulkFetchEnds(ph, need) ==
    /\ pc = ph
    /\ chunk = ChunkCount(need)
    /\ lastWalk' # NoWalk
    /\ lastWalk'.phase = ph

\* The step ends the attribute-values fetch: its last chunk returns, or a
\* 403/404 ends it with the warning and the empty mapping.
AttributesFetchEnds ==
    \/ BulkFetchEnds(AttributesPhase, cur.need_attr)
    \/ pc = AttributesPhase /\ warnings' = warnings + 1 /\ attr_map' = 0

\* The step flattens the customers of the current page into rows.
FlattensPage == rows' # rows

\* C21: the customer pipeline is sequential.  A customer page is requested
\* only when no bulk fetch is under way and every page requested before has
\* been received and flattened; the page counter advances only in the step
\* that flattens the page; the customers of a page are flattened only after
\* the address fetch and then the attribute-values fetch the page needs have
\* ended, with the mappings of that very page.
C21_SequentialPipeline ==
    [][ script = "customers" =>
          /\ reqLog' # reqLog =>
               /\ pc = CustomersPhase /\ sub = SubStart /\ chunk = 0
               /\ reqLog' = Append(reqLog, page)
               /\ Len(reqLog) = page - 1
               /\ Len(walked) = page - 1
          /\ pc \in {AddressesPhase, AttributesPhase} =>
               /\ reqLog' = reqLog
               /\ Len(reqLog) = page /\ Len(walked) = page
          /\ page' # page =>
               /\ page' = page + 1
               /\ pc' = CustomersPhase
               /\ rows' = rows + RowsOfPage(cur')
               /\ Len(walked') = page
          /\ (pc' = AttributesPhase /\ pc # AttributesPhase) =>
               /\ cur'.need_attr > 0
               /\ \/ pc = CustomersPhase /\ cur'.need_addr = 0
                  \/ BulkFetchEnds(AddressesPhase, cur.need_addr)
          /\ FlattensPage =>
               /\ rows' = rows + RowsOfPage(cur')
               /\ IF cur'.need_attr > 0
                  THEN AttributesFetchEnds
                  ELSE /\ attr_map' = 0
                       /\ IF cur'.need_addr > 0
                          THEN BulkFetchEnds(AddressesPhase, cur.need_addr)
                          ELSE pc = CustomersPhase /\ addr_map' = 0
               /\ cur'.need_addr = 0 => addr_map' = 0
      ]_vars

\* C21 witness: the second customer page is about to be requested after the
\* first one went through both bulk fetches and was flattened.
C21_Witness ==
    /\ script = "customers"
    /\ pc = CustomersPhase
    /\ page = 2
    /\ reqLog = <<1>>
    /\ cur.need_addr > 0
    /\ cur.need_attr > 0
    /\ addr_map > 0
    /\ attr_map > 0
    /\ rows > 0
    /\ lastWalk.phase = AttributesPhase

\* ---------------------------------------------------------------------
\* Schema unification (specification SpecCsv)
\* ---------------------------------------------------------------------
\* The rows fetch_all_customers_with_subresources returns for the customers
\* recs and the attribute definitions defs.
RowsOf(recs, defs) ==
    LET kept == SelectSeq(recs, LAMBDA e : Get(e.c, K_id) # None)
    IN  Table([i \in 1 .. Len(kept) |->
                 normalize_customer_row(MergeCustomer(kept[i]), defs)])

\* Every row sequence of the inputs, with its keys in first-seen order and
\* its column list.
ColumnTable ==
    { [rows |-> RowsOf(recs, defs),
       seen |-> FirstSeen(<<>>, RowsOf(recs, defs)),
       columns |-> build_fieldnames(RowsOf(recs, defs))] :
        recs \in CustomerRecords, defs \in AttrDefinitions }

RECURSIVE Concat(_)
Concat(seqs) == IF seqs = <<>> THEN <<>> ELSE seqs[1] \o Concat(Tail(seqs))

\* The ids the sub-records of item_list carry.
ParentIds(item_list) ==
    { Get(item_list[i].v, K_customer_id).v[1] :
        i \in { j \in 1 .. Len(item_list) :
                  Get(item_list[j].v, K_customer_id) # None } }

\* C23: the fetch_paginated calls of a bulk fetch carry, one after the
\* other, consecutive pieces of the flagged ids of at most ID_IN_CHUNK ids,
\* all but the last of exactly ID_IN_CHUNK; when the bulk fetch returns
\* after its last chunk the pieces put together are the flagged ids, each
\* once and in their order, one call was made per chunk, and the mapping
\* returned holds, for each customer_id some returned sub-record carries,
\* the sub-records with that customer_id in the order of their arrival;
\* a sub-record without customer_id is in no list.
C23_ChunkedBulkFetch ==
    bulk_pc # "idle" =>
      /\ \A c \in 1 .. Len(id_chunks) :
           /\ id_chunks[c] # <<>>
           /\ Len(id_chunks[c]) <= ID_IN_CHUNK
           /\ c < Len(id_chunks) => Len(id_chunks[c]) = ID_IN_CHUNK
      /\ Concat(id_chunks) = SubSeq(customer_ids, 1, Len(Concat(id_chunks)))
      /\ bulk_pc = "returned" =>
           /\ Concat(id_chunks) = customer_ids
           /\ Len(id_chunks) = ChunkCount(Len(customer_ids))
           /\ DOMAIN bulk_map = ParentIds(bulk_rows)
           /\ \A cid \in DOMAIN bulk_map :
                bulk_map[cid]
                  = SelectSeq(bulk_rows,
                              LAMBDA r : Get(r.v, K_customer_id) = Num(cid))

\* C23 witness: a bulk fetch of three chunks has returned; sub-records
\* arrived for a customer of the first and for one of the last chunk, two of
\* them for the same customer, and one without customer_id.
C23_Witness ==
    /\ bulk_pc = "returned"
    /\ Len(id_chunks) = 3
    /\ Len(id_chunks[3]) < ID_IN_CHUNK
    /\ \E i \in 1 .. Len(bulk_rows) : ~ Has(bulk_rows[i].v, K_customer_id)
    /\ \E cid \in DOMAIN bulk_map :
         /\ cid = customer_ids[1]
         /\ Len(bulk_map[cid]) = 2
         /\ bulk_map[cid][1] # bulk_map[cid][2]
    /\ customer_ids[Len(customer_ids)] \in DOMAIN bulk_map

\* ---------------------------------------------------------------------
\* Split groups (specification SpecCsv)
\* ---------------------------------------------------------------------
\* The list the address columns of customer c are made from.
AddressList(c) ==
    LET a == Or(Get(c, K_addresses), List(<<>>))
    IN  IF a.t = "list" THEN a.v ELSE <<>>

\* The list the attribute columns of customer c are made from.
AttributeList(c) ==
    LET a == AttrSource(Or(Get(c, K_attributes), List(<<>>)),
                        Or(Get(c, K_attribute_values), List(<<>>)))
    IN  IF a.t = "list" THEN a.v ELSE <<>>

\* The fields an address gives to its columns: its own, nested values as
\* JSON text.
AddressCells(item) ==
    [j \in 1 .. Len(item.v) |->
       KV(item.v[j].k,
          IF IsNested(item.v[j].v) THEN json_cell(item.v[j].v)
          ELSE item.v[j].v)]

\* The fields an attribute gives to its columns: id, name, value and raw.
AttributeCells(item) ==
    LET a == CanonItem(item, attr_defs).v
    IN  <<KV(K_id, Get(a, K_attribute_id)), KV(K_name, Get(a, K_attribute_name)),
          KV(K_value, Get(a, K_value)), KV(K_raw, json_cell(Get(a, K_raw)))>>

\* The split columns of one group in a row are those of the sub-entities
\* of the source list at positions 1 .. cap that are objects, each under
\* the index of its position in the source list.
SplitGroupOf(row, source, prefix, cap, Cells(_)) ==
    /\ \A j \in 1 .. Len(row) :
         PatMatch(row[j].k, prefix) # <<>> =>
           LET i == SplitIndex(row[j].k, prefix)
               f == SplitField(row[j].k, prefix)
           IN  /\ i \in 1 .. Min(Len(source), cap)
               /\ source[i].t = "dict"
               /\ Has(Cells(source[i]), f)
               /\ row[j].v = Get(Cells(source[i]), f)
    /\ \A i \in 1 .. Min(Len(source), cap) :
         source[i].t = "dict" =>
           \A j \in 1 .. Len(Cells(source[i])) :
             Has(row, SplitColumn(prefix, i - 1, Cells(source[i])[j].k))

\* The customers flattened so far, merged with their bulk fetched lists.
Flattened ==
    LET kept == SelectSeq(SubSeq(records, 1, csv_i),
                          LAMBDA e : Get(e.c, K_id) # None)
    IN  [i \in 1 .. Len(kept) |-> MergeCustomer(kept[i])]

\* The address group of every flattened customer.
C24_AddressGroup ==
    (csv_script = "customers" /\ csv_pc = "collect") =>
      \A i \in 1 .. Len(flat) :
        SplitGroupOf(flat[i], AddressList(Flattened[i]), K_address,
                     MAX_ADDRESSES, AddressCells)

\* The attribute group of every flattened customer.
C24_AttributeGroup ==
    (csv_script = "customers" /\ csv_pc = "collect") =>
      \A i \in 1 .. Len(flat) :
        SplitGroupOf(flat[i], AttributeList(Flattened[i]), K_attribute,
                     MAX_ATTRIBUTES, AttributeCells)

\* C24: in a flattened customer no split column has an index above the cap
\* of its group, the columns <group><i>_<field> hold the fields of the
\* sub-entity at position i of the source list, and a sub-entity that is
\* not an object gives no column and leaves the indexes of the sub-entities
\* after it as they are; for the address and for the attribute group.
C24_SplitGroups == C24_AddressGroup /\ C24_AttributeGroup

\* A customer with more addresses than the cap has been flattened.
C24_AddressCapReached ==
    /\ csv_script = "customers"
    /\ Len(flat) = 1
    /\ Len(AddressList(Flattened[1])) > MAX_ADDRESSES
    /\ Has(flat[1], SplitColumn(K_address, MAX_ADDRESSES - 1, A_city.v[1].k))

\* A customer with more attributes than the cap has been flattened.
C24_AttributeCapReached ==
    /\ csv_script = "customers"
    /\ Len(flat) = 1
    /\ Len(AttributeList(Flattened[1])) > MAX_ATTRIBUTES
    /\ Has(flat[1], SplitColumn(K_attribute, MAX_ATTRIBUTES - 1, K_raw))

\* ---------------------------------------------------------------------
\* The backoff schedule (specification SpecFetch)
\* ---------------------------------------------------------------------
\* The latest attempt of request_with_backoff slept on a Retry-After value.
SleptOnRetryAfter ==
    /\ lastAttempt.outcome.status = 429
    /\ lastAttempt.outcome.retry_after.form # "absent"
    /\ ParseFloat(lastAttempt.outcome.retry_after) # <<>>

\* A sleep of request_with_backoff after a retryable failure on attempt a
\* without usable Retry-After is within min(2^(a-1), 60) and
\* min(1.25 * 2^(a-1), 60) seconds, and no sleep is longer than 60 s.
C25_SleepBounds ==
    (fn = "request_with_backoff" /\ lastAttempt.sleep # <<>>) =>
      /\ lastAttempt.sleep[1] <= Seconds(60)
      /\ ~ SleptOnRetryAfter
           => OnBackoffSchedule(lastAttempt.sleep, lastAttempt.n)

\* request_with_backoff sleeps only when another attempt follows.
C25_SleepsBetweenAttempts ==
    (fn = "request_with_backoff" /\ lastAttempt.sleep # <<>>) =>
      /\ lastAttempt.n < MAX_RETRIES
      /\ fpc = "running"

\* C25: a sleep of request_with_backoff after a retryable failure on attempt
\* a without usable Retry-After lasts between min(2^(a-1), 60) and
\* min(1.25 * 2^(a-1), 60) seconds, no sleep is longer than 60 seconds, and
\* the fetcher sleeps only between two attempts, never after the last
\* attempt of its budget.
C25_BackoffSchedule == C25_SleepBounds /\ C25_SleepsBetweenAttempts

\* The schedule is reached up to its cap: a sleep of 60 s on an attempt the
\* exponential base of which is above 60 s.
C25_CapReached ==
    /\ fn = "request_with_backoff"
    /\ lastAttempt.n = MAX_RETRIES - 1
    /\ lastAttempt.outcome.status = 503
    /\ lastAttempt.sleep = <<Seconds(60)>>
    /\ ExpBackoff(lastAttempt.n) > Seconds(60)

\* ---------------------------------------------------------------------
\* Completeness of the column list (specification SpecCsv)
\* ---------------------------------------------------------------------
\* The keys that occur in the rows.
KeySet(rs) == UNION { { rs[i][j].k : j \in 1 .. Len(rs[i]) } : i \in 1 .. Len(rs) }

\* `final` and `leftovers` of build_fieldnames(rs)
FinalList(rs) ==
    LET all_keys_in_order == FirstSeen(<<>>, rs)
    IN  FinalOf(all_keys_in_order,
                SelectSeq(all_keys_in_order, LAMBDA k : IsSplitKey(k, K_address)),
                SelectSeq(all_keys_in_order, LAMBDA k : IsSplitKey(k, K_attribute)))

LeftoverList(rs) == Leftovers(FirstSeen(<<>>, rs), FinalList(rs))

\* C26: the column list of build_fieldnames holds every key of the rows
\* exactly once and nothing else, the leftover part of the list is empty,
\* and every cell of every row written is in the line of that row, in the
\* column of its key.
C26_ColumnsArePermutation ==
    (csv_script = "customers" /\ csv_pc \in {"rows", "done"} /\ flat # <<>>) =>
      /\ \A k \in KeySet(flat) :
           Cardinality({ p \in 1 .. Len(fieldnames) : fieldnames[p] = k }) = 1
      /\ Len(fieldnames) = Cardinality(KeySet(flat))
      /\ LeftoverList(flat) = <<>>
      /\ fieldnames = FinalList(flat)
      /\ \A i \in 1 .. Len(lines) :
           \A j \in 1 .. Len(flat[i]) :
             /\ Pos(fieldnames, flat[i][j].k) \in 1 .. Len(lines[i])
             /\ lines[i][Pos(fieldnames, flat[i][j].k)] = CellText(flat[i][j].v)

\* C26 witness: two customers are written, each with a key the other
\* lacks, the keys being normal, address split, attribute split and back
\* columns.
C26_Witness ==
    /\ csv_script = "customers"
    /\ csv_pc = "done"
    /\ Len(lines) = 2
    /\ \E k \in KeySet(flat) : ~ Has(flat[1], k)
    /\ \E k \in KeySet(flat) : ~ Has(flat[2], k)
    /\ { Partition(k) : k \in KeySet(flat) } = 1 .. 4

====
